---- MODULE Spec2Model ----
(***************************************************************************)
(* A model of the card scheduling engine of zigen-trainer.                 *)
(*                                                                         *)
(*   src/src/scheduler.rs     the interval scheduler (three queues)        *)
(*   src/src/scheduler_v2.rs  the priority scheduler (one sorted pool)     *)
(*   src/src/scheduler_fsrs.rs  the FSRS scheduler (pool by retrievability)*)
(*   src/src/user_state.rs    the per-deck progress map                    *)
(*                                                                         *)
(* Representation.  A card is a record.  `id` is the card's position in    *)
(* the list given at construction (1 = first supplied item) and stands for *)
(* its content.  `easiness_factor` is kept in hundredths (2.5 is 250), so  *)
(* the update 0.1 - d*(0.08 + d*0.2) is the exact integer 10 - d*(8+d*20). *)
(* Times are seconds.  `last_reviewed` is written by both schedulers and   *)
(* read by neither, and is left out of the card record.                    *)
(***************************************************************************)
EXTENDS Integers, Sequences, FiniteSets, TLC

VARIABLES
    \* One scheduler and the session that drives it.
    kind,             \* which scheduler is running: "Interval" or "V2"
    adept,            \* the parameter set: FALSE = Novice, TRUE = Adept
    new_cards,        \* the unseen stack (a Vec: its last element is the top)
    learning_cards,   \* the learning queue (interval) or the pool (v2)
    reviewing_cards,  \* the review queue (interval scheduler only)
    done_learning,    \* learning ratings since the last review rating
    now,              \* the wall clock, in seconds
    pc,               \* "get": the caller's next call is get_card; "rate": rate_card
    current,          \* the card the last get_card returned (NoCard before the first)
    got_at,           \* the time of that get_card call
    failure,          \* "none", or the panic the program died of
    \* What has been done so far.
    rated,            \* the id of the card the last rate_card changed (0 before the first)
    prev,             \* the scheduler as it was before the last rate_card
    times,            \* times[i]: the number of ratings card i has received
    clean,            \* the cards that were never rated Again
    n_cards,          \* the number of items supplied at construction
    n_ratings,        \* rate_card calls made so far
    n_nongood,        \* of these, the calls whose rating counts as other than Good
    n_regets,         \* get_card calls that followed a get_card call directly
    \* The progress map of user_state.rs.
    current_scheme,   \* UserState.current_scheme
    progresses,       \* UserState.progresses: deck id -> TrainProgress or NoProgress
    init_result,      \* what the last try_initialize_scheme returned
    built,            \* the card count of the progress the last direct
                      \* TrainProgress::new call returned (-1: no call returned)
    stored,           \* localStorage: what write_to_local_storage wrote last
    twin              \* a second interval scheduler, built from the same list and
                      \* given the same ratings while its clock stands at TwinClock

schedVars == <<new_cards, learning_cards, reviewing_cards, done_learning>>
histVars == <<rated, prev, times, clean, n_ratings, n_nongood>>
userVars == <<current_scheme, progresses, init_result, built>>

vars == <<kind, adept, new_cards, learning_cards, reviewing_cards, done_learning,
          now, pc, current, got_at, failure, rated, prev, times, clean, n_cards,
          n_ratings, n_nongood, n_regets, current_scheme, progresses,
          init_result, built, stored, twin>>

----------------------------------------------------------------------------
(* Bounds of the model. *)

\* A deck has 1 card, or MaxSmallDeck cards (it fits into the learning queue
\* at once), or 1 card or MaxExtra cards more than the learning queue takes.
MaxSmallDeck == 2
MaxExtra == 2
\* rate_card calls in one run.
MaxRatings == 24
\* Ratings other than Good in one run.
MaxNonGood == 1
\* rate_card calls in one run of the priority scheduler.
MaxRatingsV2 == 16
\* rate_card calls in one run of the FSRS scheduler.
MaxRatingsFsrs == 7
\* Ratings other than Good in one run of the FSRS scheduler.
MaxNonGoodFsrs == 1
\* Repeated get_card calls in one run.
MaxRegets == 1
\* Seconds the clock advances by between two calls (past the 300 s after
\* which a promoted v2 card is due).
TickSeconds == 400
\* The clock stops at this many seconds.
MaxNow == 400
\* Cards of a deck opened through the progress map (0: no practice cards).
MaxUserDeck == 1
\* The longest time a card is watched after its first rating, in seconds.
MaxElapsed == 1600
\* The ratings of a long session, and the reviews failed in it.
MaxLongRatings == 60
MaxFailedReviews == 2
\* The ratings of a session without a failure.
MaxSuccessRatings == 80
\* rate_card calls in one run over the progress map.
MaxUserRatings == 2

----------------------------------------------------------------------------
(* Ratings: scheduler.rs, enum Rating. *)

Ratings == {"Again", "Hard", "Good", "Easy"}

difficulty(rating) ==
    CASE rating = "Again" -> 3
      [] rating = "Hard"  -> 2
      [] rating = "Good"  -> 1
      [] rating = "Easy"  -> 0

----------------------------------------------------------------------------
(* Cards: scheduler.rs, enum Card. *)

NoCard == [id |-> 0, st |-> "None", attempts |-> 0, last_interval |-> 0,
           repetition |-> 0, easiness_factor |-> 0, due |-> 0]

CardNew(i) == [NoCard EXCEPT !.id = i, !.st = "New"]

CardLearning(i, a) == [NoCard EXCEPT !.id = i, !.st = "Learning", !.attempts = a]

CardReview(i, li, rep, ef, d) ==
    [NoCard EXCEPT !.id = i, !.st = "Review", !.last_interval = li,
                   !.repetition = rep, !.easiness_factor = ef, !.due = d]

----------------------------------------------------------------------------
(* Sequence helpers standing for Vec and VecDeque operations. *)

Min(a, b) == IF a < b THEN a ELSE b
Max(a, b) == IF a > b THEN a ELSE b

Reverse(s) == [i \in 1..Len(s) |-> s[Len(s) + 1 - i]]

\* VecDeque::insert(at, x), `at` counted from 0; the caller checks at <= len.
InsertAt(s, at, x) == SubSeq(s, 1, at) \o <<x>> \o SubSeq(s, at + 1, Len(s))

Front(s) == s[1]
Back(s) == s[Len(s)]
PopFront(s) == SubSeq(s, 2, Len(s))
PopBack(s) == SubSeq(s, 1, Len(s) - 1)

Ids(s) == {s[i].id : i \in 1..Len(s)}

----------------------------------------------------------------------------
(* Parameters: scheduler.rs, trait ScheduleParam and its two impls. *)

LEARN_REVIEW_RATIO(a) == IF a THEN 20 ELSE 8
MAX_LEARNING_ATTEMPTS(a) == IF a THEN 2 ELSE 3
LEARNING_INTERVALS_S(a) == IF a THEN <<3, 6>> ELSE <<3, 6, 9>>
LEARNING_INTERVALS_F(a) == IF a THEN <<2, 4>> ELSE <<2, 4, 6>>
\* Mutant: the learning queue is one card long.
LEARNING_CARDS_One(a) == 1

\* Rust slices index from 0.
LEARNING_CARDS(a) == LEARNING_INTERVALS_S(a)[(MAX_LEARNING_ATTEMPTS(a) - 1) + 1] + 1

----------------------------------------------------------------------------
(* The interval scheduler: scheduler.rs, impl Scheduler. *)

\* A scheduler value: the fields of struct Scheduler.
Sched(nc, lc, rc, dl) ==
    [new_cards |-> nc, learning_cards |-> lc, reviewing_cards |-> rc,
     done_learning |-> dl]

\* The result of a call that may panic: the scheduler, the panic ("none" if the
\* call returned) and the id of the card the call changed.
Outcome(s, f, r) == [sched |-> s, failure |-> f, rated |-> r]

\* Mutant: the drained cards are not removed from the stack.
populate_learning_cards_KeepsStack(s, a) ==
    LET nc == s.new_cards
        lc == s.learning_cards
    IN  IF Len(lc) < LEARNING_CARDS(a) /\ nc # <<>>
        THEN LET diff == LEARNING_CARDS(a) - Len(lc)
                 split_off == Min(diff, Len(nc))
                 start == Len(nc) - split_off
             IN  [s EXCEPT !.learning_cards =
                               Reverse(SubSeq(nc, start + 1, Len(nc))) \o lc]
        ELSE s

\* populate_learning_cards: the top `split_off` cards of the stack are drained
\* bottom-up and each is pushed to the front of the learning queue.
populate_learning_cards(s, a) ==
    LET nc == s.new_cards
        lc == s.learning_cards
    IN  IF Len(lc) < LEARNING_CARDS(a) /\ nc # <<>>
        THEN LET diff == LEARNING_CARDS(a) - Len(lc)
                 split_off == Min(diff, Len(nc))
                 start == Len(nc) - split_off
             IN  [s EXCEPT !.new_cards = SubSeq(nc, 1, start),
                           !.learning_cards =
                               Reverse(SubSeq(nc, start + 1, Len(nc))) \o lc]
        ELSE s

\* Mutant: the list becomes the stack as it is, its last item on top.
SchedulerNew_NoReverse(pending, a) ==
    populate_learning_cards(Sched(pending, <<>>, <<>>, 0), a)

\* Scheduler::new: the list is reversed into the stack, then the queue is filled.
SchedulerNew(pending, a) ==
    populate_learning_cards(Sched(Reverse(pending), <<>>, <<>>, 0), a)

\* The unreachable!() of review_status: a Review card met in the learning queue.
ReviewStatusPanics(s) ==
    /\ s.new_cards = <<>>
    /\ \E i \in 1..Len(s.learning_cards) : s.learning_cards[i].st = "Review"

\* Mutant: the ratio does not follow the learning queue once the stack is empty.
learn_review_ratio_Fixed(s, a) == LEARN_REVIEW_RATIO(a)

\* Mutant: once the stack is empty only the New cards of the learning queue count.
learn_review_ratio_NewOnly(s, a) ==
    IF s.new_cards = <<>>
    THEN Cardinality({i \in 1..Len(s.learning_cards) :
             s.learning_cards[i].st = "New"})
    ELSE LEARN_REVIEW_RATIO(a)

learn_review_ratio(s, a) ==
    IF s.new_cards = <<>>
    THEN Cardinality({i \in 1..Len(s.learning_cards) :
             \/ s.learning_cards[i].st = "New"
             \/ /\ s.learning_cards[i].st = "Learning"
                /\ s.learning_cards[i].attempts < MAX_LEARNING_ATTEMPTS(a)})
    ELSE LEARN_REVIEW_RATIO(a)

\* Mutant: a review is due only after more learning ratings than the ratio.
review_status_Late(s, a) ==
    IF s.done_learning > learn_review_ratio(s, a) /\ Len(s.reviewing_cards) > 0
    THEN IF s.learning_cards # <<>> THEN "ReviewIntersperse" ELSE "Review"
    ELSE "Learn"

review_status(s, a) ==
    IF s.done_learning >= learn_review_ratio(s, a) /\ Len(s.reviewing_cards) > 0
    THEN IF s.learning_cards # <<>> THEN "ReviewIntersperse" ELSE "Review"
    ELSE "Learn"

\* The queue get_card and rate_card take their card from, and the end they take.
StatusQueue(s, a) ==
    IF review_status(s, a) = "Learn" THEN s.learning_cards ELSE s.reviewing_cards

\* Mutant: an interspersed review is taken from the head of the review queue.
get_card_AlwaysFront(s, a) ==
    IF StatusQueue(s, a) = <<>> THEN NoCard ELSE Front(StatusQueue(s, a))

\* get_card: the card, or NoCard where the unwrap() panics.
get_card(s, a) ==
    LET status == review_status(s, a)
    IN  IF StatusQueue(s, a) = <<>> THEN NoCard
        ELSE CASE status = "Review"            -> Front(s.reviewing_cards)
               [] status = "ReviewIntersperse" -> Back(s.reviewing_cards)
               [] status = "Learn"             -> Front(s.learning_cards)

\* Mutant: the floor is left out.
UpdateEasiness_NoFloor(ef, rating) ==
    LET d == difficulty(rating)
    IN  ef + 10 - d * (8 + d * 20)

\* easiness_factor += 0.1 - d * (0.08 + d * 0.2); then max(1.3), in hundredths.
UpdateEasiness(ef, rating) ==
    LET d == difficulty(rating)
    IN  Max(ef + 10 - d * (8 + d * 20), 130)

\* Mutant: the product is truncated.
RoundProduct_Truncates(li, ef) == (li * ef) \div 100

\* (last_interval * easiness_factor).round() of non-negative values.
RoundProduct(li, ef) == (li * ef + 50) \div 100

\* Mutant: the promoted card is moved without becoming a Review card.
PromotedCard_StaysLearning(card, t) == card

\* Mutant: the promoted card carries its attempts over as repetitions.
PromotedCard_KeepsAttempts(card, t) ==
    CardReview(card.id, 1, card.attempts, 250, t + 86400)

\* The card a learning card is promoted to.
PromotedCard(card, t) == CardReview(card.id, 1, 1, 250, t + 86400)

\* Mutant: the arms for repetition 0 and 1 are exchanged.
RateReviewCard_ArmsSwapped(card, rating, t) ==
    IF rating # "Again"
    THEN CardReview(card.id,
                    CASE card.repetition = 0 -> 6
                      [] card.repetition = 1 -> 3
                      [] OTHER -> (card.last_interval * card.easiness_factor + 50) \div 100,
                    card.repetition + 1,
                    Max(card.easiness_factor + 10
                          - difficulty(rating) * (8 + difficulty(rating) * 20), 130),
                    t + 86400)
    ELSE CardReview(card.id, 3, 0,
                    Max(card.easiness_factor + 10
                          - difficulty(rating) * (8 + difficulty(rating) * 20), 130),
                    t + 60)

\* Mutant: a review that comes after the card fell due counts as failed.
RateReviewCard_LateFails(card, rating, t) ==
    IF rating # "Again" /\ t <= card.due
    THEN CardReview(card.id,
                    CASE card.repetition = 0 -> 3
                      [] card.repetition = 1 -> 6
                      [] OTHER -> (card.last_interval * card.easiness_factor + 50) \div 100,
                    card.repetition + 1,
                    Max(card.easiness_factor + 10
                          - difficulty(rating) * (8 + difficulty(rating) * 20), 130),
                    t + 86400)
    ELSE CardReview(card.id, 3, 0,
                    Max(card.easiness_factor + 10
                          - difficulty(rating) * (8 + difficulty(rating) * 20), 130),
                    t + 60)

\* Mutant: a failed review restarts with interval 1.
RateReviewCard_RestartsAtOne(card, rating, t) ==
    IF rating # "Again"
    THEN CardReview(card.id,
                    CASE card.repetition = 0 -> 3
                      [] card.repetition = 1 -> 6
                      [] OTHER -> (card.last_interval * card.easiness_factor + 50) \div 100,
                    card.repetition + 1,
                    Max(card.easiness_factor + 10
                          - difficulty(rating) * (8 + difficulty(rating) * 20), 130),
                    t + 86400)
    ELSE CardReview(card.id, 1, 0,
                    Max(card.easiness_factor + 10
                          - difficulty(rating) * (8 + difficulty(rating) * 20), 130),
                    t + 60)

\* The Review arms of rate_card: the rated card.
RateReviewCard(card, rating, t) ==
    IF rating # "Again"
    THEN CardReview(card.id,
                    CASE card.repetition = 0 -> 3
                      [] card.repetition = 1 -> 6
                      [] OTHER -> RoundProduct(card.last_interval, card.easiness_factor),
                    card.repetition + 1,
                    UpdateEasiness(card.easiness_factor, rating),
                    t + 86400)
    ELSE CardReview(card.id, 3, 0, UpdateEasiness(card.easiness_factor, rating), t + 60)

\* Mutant: a failed review always stays in the review queue.
BackToLearn_Never(s, rating) == FALSE

\* Mutant: a failed review goes back to the learning queue also when it is empty.
BackToLearn_AnyQueue(s, rating) == rating = "Again"

\* A failed review goes back to the learning queue when that queue is not empty.
BackToLearn(s, rating) == rating = "Again" /\ s.learning_cards # <<>>

\* rate_card, the branch taken when review_status() is not Learn.
RateInReview(s, a, rating, t) ==
    LET status == review_status(s, a)
        rc == s.reviewing_cards
    IN  IF rc = <<>> THEN Outcome(s, "unwrap", 0)
        ELSE
        LET card == IF status = "Review" THEN Front(rc) ELSE Back(rc)
            rest == IF status = "Review" THEN PopFront(rc) ELSE PopBack(rc)
        IN  IF card.st # "Review" THEN Outcome(s, "assert", card.id)
            ELSE
            LET after == RateReviewCard(card, rating, t)
                interval == after.last_interval
            IN  IF BackToLearn(s, rating)
                THEN IF LEARNING_INTERVALS_F(a)[1] > Len(s.learning_cards)
                     THEN Outcome(s, "insert", card.id)
                     ELSE Outcome(
                            [s EXCEPT !.reviewing_cards = rest,
                                      !.learning_cards =
                                          InsertAt(s.learning_cards,
                                                   LEARNING_INTERVALS_F(a)[1],
                                                   CardLearning(card.id, 1)),
                                      !.done_learning = 0],
                            "none", card.id)
                ELSE Outcome(
                       [s EXCEPT !.reviewing_cards =
                                     InsertAt(rest, Min(interval, Len(rest)), after),
                                 !.done_learning = 0],
                       "none", card.id)

\* Mutant: the counter moves by one without the clamp at 0.
NextAttempts_NoClamp(attempts, rating) ==
    IF rating = "Again" THEN attempts - 1 ELSE attempts + 1

\* Mutant: a successful answer does not raise a count that is not negative.
NextAttempts_NoGain(attempts, rating) ==
    IF rating = "Again" THEN Min(attempts - 1, 0) ELSE Max(attempts, 0)

\* The attempts counter of a Learning card after a rating.
NextAttempts(attempts, rating) ==
    IF rating = "Again" THEN Min(attempts - 1, 0) ELSE Max(attempts + 1, 0)

\* Mutant: the failure table is read for a count that is not positive.
LearningInterval_ZeroFails(attempts, a) ==
    IF attempts <= 0
    THEN LEARNING_INTERVALS_F(a)[Min(-attempts, Len(LEARNING_INTERVALS_F(a)) - 1) + 1]
    ELSE LEARNING_INTERVALS_S(a)[Min(attempts, Len(LEARNING_INTERVALS_S(a)) - 1) + 1]

\* The next-appearance distance of a card that stays in Learning.
LearningInterval(attempts, a) ==
    IF attempts < 0
    THEN LEARNING_INTERVALS_F(a)[Min(-attempts, Len(LEARNING_INTERVALS_F(a)) - 1) + 1]
    ELSE LEARNING_INTERVALS_S(a)[Min(attempts, Len(LEARNING_INTERVALS_S(a)) - 1) + 1]

\* Mutant: a card counts as mastered one attempt late.
Mastered_Late(card, a) ==
    card.st = "Learning" /\ card.attempts > MAX_LEARNING_ATTEMPTS(a)

\* The test of can_flush on one card of the learning queue.
Mastered(card, a) ==
    card.st = "Learning" /\ card.attempts >= MAX_LEARNING_ATTEMPTS(a)

\* The first card of the queue that ends the all(..) scan of can_flush (0: none).
FirstUnmastered(lc, a) ==
    IF \A i \in 1..Len(lc) : Mastered(lc[i], a) THEN 0
    ELSE CHOOSE i \in 1..Len(lc) :
            /\ ~Mastered(lc[i], a)
            /\ \A j \in 1..(i - 1) : Mastered(lc[j], a)

\* Mutant: every flushed card goes to the head of the review queue.
RECURSIVE Flush_AtHead(_, _, _)
Flush_AtHead(lc, rc, t) ==
    IF lc = <<>> THEN rc
    ELSE Flush_AtHead(Tail(lc), <<PromotedCard(Head(lc), t)>> \o rc, t)

\* The flush: every card of the learning queue, front first, becomes a Review
\* card and is inserted at attempts * 13 / 10, clamped.
RECURSIVE Flush(_, _, _)
Flush(lc, rc, t) ==
    IF lc = <<>> THEN rc
    ELSE LET card == Head(lc)
             interval == (card.attempts * 13) \div 10
         IN  Flush(Tail(lc),
                   InsertAt(rc, Min(interval, Len(rc)), PromotedCard(card, t)),
                   t)

\* rate_card, the branch taken when review_status() is Learn.
RateInLearn(s, a, rating, t) ==
    LET lc == s.learning_cards
    IN  IF lc = <<>> THEN Outcome(s, "unwrap", 0)
        ELSE
        LET card == Front(lc)
            rest == PopFront(lc)
        IN  IF card.st \notin {"New", "Learning"} THEN Outcome(s, "assert", card.id)
            ELSE
            LET attempts == IF card.st = "New" THEN 0
                            ELSE NextAttempts(card.attempts, rating)
                after == CardLearning(card.id, attempts)
                to_review == card.st = "Learning" /\ attempts >= MAX_LEARNING_ATTEMPTS(a)
            IN  IF ~to_review
                THEN Outcome(
                       [s EXCEPT !.learning_cards =
                                     InsertAt(rest,
                                              Min(LearningInterval(attempts, a), Len(rest)),
                                              after),
                                 !.done_learning = @ + 1],
                       "none", card.id)
                ELSE IF s.new_cards = <<>> /\ Len(rest) <= LEARNING_CARDS(a)
                THEN LET held == Append(rest, after)
                         stop == FirstUnmastered(held, a)
                     IN  IF stop # 0 /\ held[stop].st # "Learning"
                         THEN Outcome(s, "unreachable", card.id)
                         ELSE IF stop = 0
                         THEN Outcome(
                                [s EXCEPT !.learning_cards = <<>>,
                                          !.reviewing_cards =
                                              Flush(held, s.reviewing_cards, t),
                                          !.done_learning = @ + 1],
                                "none", card.id)
                         ELSE Outcome(
                                [s EXCEPT !.learning_cards = held,
                                          !.done_learning = @ + 1],
                                "none", card.id)
                ELSE Outcome(
                       [s EXCEPT !.learning_cards = rest,
                                 !.reviewing_cards =
                                     InsertAt(s.reviewing_cards,
                                              Min(1, Len(s.reviewing_cards)),
                                              PromotedCard(after, t)),
                                 !.done_learning = @ + 1],
                       "none", card.id)

\* Mutant: the learning queue is not refilled after the rating.
rate_card_NoRefill(s, a, rating, t) ==
    IF ReviewStatusPanics(s) THEN Outcome(s, "unreachable", 0)
    ELSE IF review_status(s, a) # "Learn"
         THEN RateInReview(s, a, rating, t)
         ELSE RateInLearn(s, a, rating, t)

\* rate_card: the phase is derived again, the card is rated and put back, and
\* the learning queue is refilled.
rate_card(s, a, rating, t) ==
    IF ReviewStatusPanics(s) THEN Outcome(s, "unreachable", 0)
    ELSE LET out == IF review_status(s, a) # "Learn"
                    THEN RateInReview(s, a, rating, t)
                    ELSE RateInLearn(s, a, rating, t)
         IN  IF out.failure # "none" THEN out
             ELSE [out EXCEPT !.sched = populate_learning_cards(out.sched, a)]

\* Mutant: the New cards of the learning queue are counted as well.
reviewed_cards_CountsNew(s) == Len(s.learning_cards) + Len(s.reviewing_cards)

reviewed_cards(s) ==
    LET not_yet_learned ==
            Cardinality({i \in 1..Len(s.learning_cards) : s.learning_cards[i].st = "New"})
    IN  Len(s.learning_cards) - not_yet_learned + Len(s.reviewing_cards)

total_cards(s) == Len(s.new_cards) + Len(s.learning_cards) + Len(s.reviewing_cards)


----------------------------------------------------------------------------
(* The priority scheduler: scheduler_v2.rs.  Its last_interval takes the     *)
(* values 0.5 and 1.5 and is kept in halves (1.0 is 2) in the card record.  *)

v2_max_learning_attempts(a) == IF a THEN 2 ELSE 3
v2_learning_intervals_s(a) == IF a THEN <<3, 6>> ELSE <<3, 6, 9>>
v2_learning_intervals_f(a) == IF a THEN <<2, 4>> ELSE <<2, 4, 6>>
v2_learning_cards(a) ==
    v2_learning_intervals_s(a)[(v2_max_learning_attempts(a) - 1) + 1] + 1

\* A v2 scheduler value: the fields of struct SchedulerV2 (sched_param is `adept`).
SchedV2(nc, pool) == [new_cards |-> nc, learning_cards |-> pool]

\* The easiness update of Card::rate_card, in hundredths.
V2UpdateEasiness(ef, rating) ==
    LET d == difficulty(rating)
    IN  Max(ef + 10 - d * (8 + d * 20), 130)

\* last_interval of a rated Review card, in halves: 0.5, 1.5, 3.0 or
\* (last_interval * easiness_factor).round().
V2NextInterval(card) ==
    CASE card.repetition = 0 -> 1
      [] card.repetition = 1 -> 3
      [] card.repetition = 2 -> 6
      [] OTHER -> 2 * ((card.last_interval * card.easiness_factor + 100) \div 200)

\* Mutant: a Learning card is promoted one answer late.
V2RateCardState_PromotesLate(card, a, rating, t) ==
    CASE card.st = "New" -> CardLearning(card.id, 0)
      [] card.st = "Learning" ->
            LET new_attempts == card.attempts + 1
            IN  IF new_attempts > v2_max_learning_attempts(a)
                THEN CardReview(card.id, 2, 1, 250, t + 300)
                ELSE CardLearning(card.id, new_attempts)
      [] card.st = "Review" ->
            LET last_interval == V2NextInterval(card)
            IN  CardReview(card.id,
                           last_interval,
                           IF rating # "Again" THEN card.repetition + 1 ELSE 0,
                           V2UpdateEasiness(card.easiness_factor, rating),
                           t + 150 * last_interval)

\* Card::rate_card.
V2RateCardState(card, a, rating, t) ==
    CASE card.st = "New" -> CardLearning(card.id, 0)
      [] card.st = "Learning" ->
            LET new_attempts == card.attempts + 1
            IN  IF new_attempts >= v2_max_learning_attempts(a)
                THEN CardReview(card.id, 2, 1, 250, t + 300)
                ELSE CardLearning(card.id, new_attempts)
      [] card.st = "Review" ->
            LET last_interval == V2NextInterval(card)
            IN  CardReview(card.id,
                           last_interval,
                           IF rating # "Again" THEN card.repetition + 1 ELSE 0,
                           V2UpdateEasiness(card.easiness_factor, rating),
                           \* (300.0 * last_interval) as i64 seconds
                           t + 150 * last_interval)

\* Card::needs_learning.
needs_learning(card, t) ==
    CASE card.st = "New" -> TRUE
      [] card.st = "Learning" -> TRUE
      [] card.st = "Review" -> card.due < t

\* Whether the table lookup the comparator makes for a Learning card is in range.
V2TableIndexOk(attempts, a) ==
    IF attempts >= 0
    THEN attempts < Len(v2_learning_intervals_s(a))
    ELSE -attempts - 1 < Len(v2_learning_intervals_f(a))

\* The looked-up distance (0 where the lookup panics: see V2SortPanics).
V2Distance(attempts, a) ==
    IF ~V2TableIndexOk(attempts, a) THEN 0
    ELSE IF attempts >= 0
         THEN v2_learning_intervals_s(a)[attempts + 1]
         ELSE v2_learning_intervals_f(a)[(-attempts - 1) + 1]

\* Mutant: an overdue Review card is compared like one that is not yet due.
V2Compare_OverdueLast(x, y, t, a) ==
    CASE x.st = "New" /\ y.st = "New" -> "Equal"
      [] x.st = "New" /\ y.st = "Learning" -> "Less"
      [] x.st = "New" /\ y.st = "Review" -> "Less"
      [] x.st = "Learning" /\ y.st = "Learning" ->
            LET card1 == V2Distance(x.attempts, a)
                card2 == V2Distance(y.attempts, a)
            IN  IF card1 < card2 THEN "Less"
                ELSE IF card1 > card2 THEN "Greater" ELSE "Equal"
      [] x.st = "Learning" /\ y.st = "New" -> "Greater"
      [] x.st = "Learning" /\ y.st = "Review" -> "Less"
      [] x.st = "Review" /\ y.st = "New" -> "Greater"
      [] x.st = "Review" /\ y.st = "Learning" -> "Greater"
      [] x.st = "Review" /\ y.st = "Review" ->
            IF x.due < y.due THEN "Less"
            ELSE IF x.due > y.due THEN "Greater" ELSE "Equal"

\* The comparator of sort_by, arm by arm.
V2Compare(x, y, t, a) ==
    CASE x.st = "New" /\ y.st = "New" -> "Equal"
      [] x.st = "New" /\ y.st = "Learning" -> "Less"
      [] x.st = "New" /\ y.st = "Review" -> IF y.due < t THEN "Greater" ELSE "Less"
      [] x.st = "Learning" /\ y.st = "Learning" ->
            LET card1 == V2Distance(x.attempts, a)
                card2 == V2Distance(y.attempts, a)
            IN  IF card1 < card2 THEN "Less"
                ELSE IF card1 > card2 THEN "Greater" ELSE "Equal"
      [] x.st = "Learning" /\ y.st = "New" -> "Greater"
      [] x.st = "Learning" /\ y.st = "Review" -> IF y.due < t THEN "Greater" ELSE "Less"
      [] x.st = "Review" /\ y.st = "New" -> IF x.due < t THEN "Less" ELSE "Greater"
      [] x.st = "Review" /\ y.st = "Learning" -> IF x.due < t THEN "Less" ELSE "Greater"
      [] x.st = "Review" /\ y.st = "Review" ->
            IF x.due < y.due THEN "Less"
            ELSE IF x.due > y.due THEN "Greater" ELSE "Equal"

\* A stable sort: each card in turn goes before the first sorted card it is Less than.
V2InsertSorted(sorted, x, t, a) ==
    LET later == {i \in 1..Len(sorted) : V2Compare(x, sorted[i], t, a) = "Less"}
        at == IF later = {} THEN Len(sorted)
              ELSE (CHOOSE i \in later : \A j \in later : i <= j) - 1
    IN  InsertAt(sorted, at, x)

RECURSIVE V2SortFrom(_, _, _, _)
V2SortFrom(sorted, rest, t, a) ==
    IF rest = <<>> THEN sorted
    ELSE V2SortFrom(V2InsertSorted(sorted, Head(rest), t, a), Tail(rest), t, a)

V2Sort(pool, t, a) == V2SortFrom(<<>>, pool, t, a)

\* The comparator indexes a table out of range.
V2SortPanics(pool, a) ==
    \E i, j \in 1..Len(pool) :
        /\ i # j
        /\ pool[i].st = "Learning" /\ pool[j].st = "Learning"
        /\ ~V2TableIndexOk(pool[i].attempts, a)

\* The while loop of populate_learning_cards: the pool is filled from the top
\* of the stack up to learning_cards().
V2Fill(s, a) ==
    LET take == Min(Max(v2_learning_cards(a) - Len(s.learning_cards), 0),
                    Len(s.new_cards))
        nc == s.new_cards
    IN  SchedV2(SubSeq(nc, 1, Len(nc) - take),
                s.learning_cards \o Reverse(SubSeq(nc, Len(nc) - take + 1, Len(nc))))

\* Mutant: no card is pulled beyond the fill.
V2PullsExtra_Never(s, t, a) == FALSE

\* The extra card: pulled when the stack is not empty and fewer than
\* learning_cards() pooled cards need learning.
V2PullsExtra(s, t, a) ==
    /\ Len(s.new_cards) > 0
    /\ Cardinality({i \in 1..Len(s.learning_cards) :
                       needs_learning(s.learning_cards[i], t)}) < v2_learning_cards(a)

V2Extra(s, t, a) ==
    IF V2PullsExtra(s, t, a)
    THEN SchedV2(PopBack(s.new_cards), Append(s.learning_cards, Back(s.new_cards)))
    ELSE s

\* Mutant: the sorted pool is left as the sort made it.
V2Swap_Never(pool, first) == pool

\* The swap that follows the sort: the card that was first before the sort
\* does not stay first when there is another card.
V2Swap(pool, first) ==
    IF pool[1].id = first /\ Len(pool) > 1
    THEN <<pool[2], pool[1]>> \o SubSeq(pool, 3, Len(pool))
    ELSE pool

\* populate_learning_cards of SchedulerV2.
v2_populate_learning_cards(s, t, a) ==
    LET filled == V2Extra(V2Fill(s, a), t, a)
    IN  IF filled.learning_cards = <<>> THEN Outcome(filled, "unwrap", 0)
        ELSE IF V2SortPanics(filled.learning_cards, a) THEN Outcome(filled, "index", 0)
        ELSE Outcome(
               SchedV2(filled.new_cards,
                       V2Swap(V2Sort(filled.learning_cards, t, a),
                              filled.learning_cards[1].id)),
               "none", 0)

\* SchedulerV2::new.
SchedulerV2New(pending, t, a) ==
    v2_populate_learning_cards(SchedV2(Reverse(pending), <<>>), t, a)

\* SchedulerV2::rate_card: the first card of the pool is rated in place.
v2_rate_card(s, a, rating, t) ==
    IF s.learning_cards = <<>> THEN Outcome(s, "unwrap", 0)
    ELSE Outcome(
           [s EXCEPT !.learning_cards[1] =
                         V2RateCardState(s.learning_cards[1], a, rating, t)],
           "none", s.learning_cards[1].id)

v2_reviewed_cards(s) ==
    Len(s.learning_cards)
      - Cardinality({i \in 1..Len(s.learning_cards) : s.learning_cards[i].st = "New"})

v2_total_cards(s) == Len(s.new_cards) + Len(s.learning_cards)


----------------------------------------------------------------------------
(* The FSRS scheduler: scheduler_fsrs.rs.  stability, difficulty and         *)
(* retrievability are f64 in the source and fixed-point numbers here, in     *)
(* units of 1/FP; exp and ln are evaluated by series in that arithmetic, so  *)
(* a value agrees with the f64 value to about three decimals.               *)

FP == 10000

W0 == 2120
W1 == 12921
W2 == 23065
W3 == 82956
W4 == 64133
W5 == 8334
W6 == 30194
W7 == 10
W8 == 18722
W9 == 1666
W10 == 7960
W11 == 14835
W12 == 614
W13 == 2629
W14 == 16483
W15 == 6014
W16 == 18729
W17 == 5425
W18 == 912
W19 == 1542
MINIMUM_LEARNING_CARDS == 8
GOOD_RETENTION_RATE == 8500

Abs(x) == IF x < 0 THEN -x ELSE x

\* f64 multiplication: a * b, rounded to the nearest 1/FP.
FMul(a, b) ==
    LET x == Abs(a)
        y == Abs(b)
        xh == x \div 100
        xl == x % 100
        yh == y \div 100
        yl == y % 100
        p == xh * yh + (xh * yl + xl * yh + (xl * yl + 50) \div 100 + 50) \div 100
    IN  IF (a < 0) # (b < 0) THEN -p ELSE p

\* f64 division: a / b for b # 0, truncated to 1/FP.
FDiv(a, b) ==
    LET x == Abs(a)
        y == Abs(b)
        r == x % y
        d1 == (r * 100) \div y
        d2 == (((r * 100) % y) * 100) \div y
        q == (x \div y) * FP + d1 * 100 + d2
    IN  IF (a < 0) # (b < 0) THEN -q ELSE q

\* e and ln 2.
EulerE == 27183
Ln2 == 6931

\* e^f for 0 <= f < 1, by the series to the 9th power.
ExpFrac(f) ==
    LET h(k, acc) == FP + FMul(f, acc) \div k
    IN  h(1, h(2, h(3, h(4, h(5, h(6, h(7, h(8, h(9, FP)))))))))

RECURSIVE ExpInt(_)
\* e^n for an integer n.
ExpInt(n) ==
    IF n = 0 THEN FP
    ELSE IF n > 0 THEN FMul(EulerE, ExpInt(n - 1))
    ELSE FDiv(ExpInt(n + 1), EulerE)

\* f64::exp.  Below e^-12 the result is less than 1/FP.
Exp(x) ==
    IF x < -12 * FP THEN 0
    ELSE LET n == x \div FP
         IN  FMul(ExpInt(n), ExpFrac(x - n * FP))

RECURSIVE Ln(_)
\* f64::ln for y > 0: halved or doubled into [1, 2), then 2 * atanh((y-1)/(y+1)).
Ln(y) ==
    IF y >= 2 * FP THEN Ln2 + Ln((y + 1) \div 2)
    ELSE IF y < FP THEN Ln(2 * y) - Ln2
    ELSE LET z == FDiv(y - FP, y + FP)
             z2 == FMul(z, z)
             h(k, acc) == FP \div k + FMul(z2, acc)
         IN  2 * FMul(z, h(1, h(3, h(5, h(7, h(9, 0))))))

\* f64::powf for a positive base.
Powf(x, y) == Exp(FMul(y, Ln(x)))

\* Cards: scheduler_fsrs.rs, enum Card.
FsrsCardNew(i) ==
    [id |-> i, st |-> "New", stability |-> 0, difficulty |-> 0, last_reviewed |-> 0]

FsrsCardReview(i, s, d, t) ==
    [id |-> i, st |-> "Review", stability |-> s, difficulty |-> d, last_reviewed |-> t]

\* -ln 0.9
NegLn09 == 1054

\* Card::get_retrievability.  (1 + F*x)^(-W20) with F = 0.9^(-1/W20) - 1 and
\* x = time / stability is 0.9^x to within 3/100000, for every x >= 0.
get_retrievability(card, t) ==
    IF card.st = "New" THEN 0
    ELSE Exp(-FMul(NegLn09, FDiv((t - card.last_reviewed) * FP, card.stability)))

\* From time / stability = 7315 on, the f64 power underflows to 0.0.
UnderflowRatio == 7315

RetrievabilityIsZero(card, t) ==
    \/ card.st = "New"
    \/ card.stability <= ((t - card.last_reviewed) * FP) \div UnderflowRatio

\* partial_cmp of the retrievabilities of x and y is Less.  The retrievability
\* of a Review card falls strictly with time / stability until it underflows,
\* so that two quotients decide the order also where 1/FP cannot tell the
\* values apart.
RetrievabilityLess(x, y, t) ==
    /\ ~RetrievabilityIsZero(y, t)
    /\ \/ x.st = "New"
       \/ (t - x.last_reviewed) * y.stability > (t - y.last_reviewed) * x.stability

\* partial_cmp of the retrievability of the card at the instant `later` and
\* its retrievability at the instant `earlier` is Less.
RetrievabilityFalls(card, earlier, later) ==
    /\ ~RetrievabilityIsZero(card, earlier)
    /\ later - card.last_reviewed > earlier - card.last_reviewed

Grade(rating) ==
    CASE rating = "Again" -> 1
      [] rating = "Hard"  -> 2
      [] rating = "Good"  -> 3
      [] rating = "Easy"  -> 4

\* W4 - exp(W5 * (4 - 1)) + 1
diffculty_mean == W4 - Exp(W5 * 3) + FP

\* The difficulty after a rating of a Review card.
FsrsNextDifficulty(d, rating) ==
    LET difficulty_delta == -W6 * (Grade(rating) - 3)
        new_difficulty ==
            d + FDiv(FMul(difficulty_delta, 10 * FP - d), 9 * FP)
    IN  FMul(W7, diffculty_mean) + FMul(FP - W7, new_difficulty)

\* The stability after a successful rating of a Review card.
FsrsStabilitySuccess(card, rating, t) ==
    LET stability == card.stability
        retrievability == get_retrievability(card, t)
        diff_factor == 11 * FP - card.difficulty
        scaled_s == Powf(stability, -W9)
        scaled_r == Exp(FMul(W10, FP - retrievability)) - FP
        stability_inc ==
            FP + FMul(FMul(FMul(FMul(FMul(W15, W16), Exp(W8)), diff_factor),
                           scaled_s), scaled_r)
        hours_since_last_review == (t - card.last_reviewed) \div 3600
        s == FMul(FMul(stability,
                       Exp(FMul(W17, (Grade(rating) - 3) * FP + W18))),
                  Powf(stability, -W19))
    IN  IF hours_since_last_review >= 20
        THEN FMul(stability, stability_inc)
        ELSE IF Grade(rating) >= 3 THEN Max(stability, s) ELSE s

\* The stability after Again on a Review card.  A difficulty that is not
\* positive makes the power NaN or infinite, and f64::min keeps the stability.
FsrsStabilityAgain(card, t) ==
    LET stability == card.stability
        retrievability == get_retrievability(card, t)
    IN  IF card.difficulty <= 0 THEN stability
        ELSE LET diff_factor == Powf(card.difficulty, -W12)
                 scaled_s == Powf(stability + FP, W13) - FP
                 scaled_r == Exp(FMul(W14, FP - retrievability))
                 new_stability ==
                     FMul(FMul(FMul(W11, diff_factor), scaled_s), scaled_r)
             IN  Min(stability, new_stability)

\* Card::rate_card.
FsrsRateCardState(card, rating, t) ==
    IF card.st = "New"
    THEN FsrsCardReview(card.id,
                        CASE rating = "Again" -> W0
                          [] rating = "Hard"  -> W1
                          [] rating = "Good"  -> W2
                          [] rating = "Easy"  -> W3,
                        W4 - Exp(W5 * (Grade(rating) - 1)) + FP,
                        t)
    ELSE FsrsCardReview(card.id,
                        IF rating # "Again"
                        THEN FsrsStabilitySuccess(card, rating, t)
                        ELSE FsrsStabilityAgain(card, t),
                        FsrsNextDifficulty(card.difficulty, rating),
                        t)

\* struct FsrsScheduler: the stack (last element on top) and the pool.
SchedFsrs(nc, pool) == [new_cards |-> nc, learning_cards |-> pool]

\* The `while` loop of populate_learning_cards.
FsrsFill(s) ==
    LET k == Min(Max(MINIMUM_LEARNING_CARDS - Len(s.learning_cards), 0),
                 Len(s.new_cards))
        n == Len(s.new_cards)
    IN  SchedFsrs(SubSeq(s.new_cards, 1, n - k),
                  s.learning_cards \o Reverse(SubSeq(s.new_cards, n - k + 1, n)))

\* Mutant: one more card is pulled only when every card of the pool is well
\* studied.
FsrsExtra_WhenAll(s, t) ==
    LET well_studied_cards ==
            Cardinality({i \in 1..Len(s.learning_cards) :
                           get_retrievability(s.learning_cards[i], t)
                             > GOOD_RETENTION_RATE})
    IN  IF /\ Len(s.new_cards) > 0
           /\ well_studied_cards >= Len(s.learning_cards)
        THEN SchedFsrs(SubSeq(s.new_cards, 1, Len(s.new_cards) - 1),
                       Append(s.learning_cards, Back(s.new_cards)))
        ELSE s

\* One more card is pulled when the well studied cards of the pool are all but
\* fewer than MINIMUM_LEARNING_CARDS / 3 of it.
FsrsExtra(s, t) ==
    LET well_studied_cards ==
            Cardinality({i \in 1..Len(s.learning_cards) :
                           get_retrievability(s.learning_cards[i], t)
                             > GOOD_RETENTION_RATE})
    IN  IF /\ Len(s.new_cards) > 0
           /\ well_studied_cards + MINIMUM_LEARNING_CARDS \div 3
                > Len(s.learning_cards)
        THEN SchedFsrs(SubSeq(s.new_cards, 1, Len(s.new_cards) - 1),
                       Append(s.learning_cards, Back(s.new_cards)))
        ELSE s

\* sort_by is stable: x goes behind every card it is not Less than.
FsrsInsertSorted(sorted, x, t) ==
    LET before == {i \in 1..Len(sorted) : RetrievabilityLess(x, sorted[i], t)}
        at == IF before = {} THEN Len(sorted)
              ELSE (CHOOSE i \in before : \A j \in before : i <= j) - 1
    IN  InsertAt(sorted, at, x)

RECURSIVE FsrsSortFrom(_, _, _)
FsrsSortFrom(sorted, rest, t) ==
    IF rest = <<>> THEN sorted
    ELSE FsrsSortFrom(FsrsInsertSorted(sorted, Front(rest), t), PopFront(rest), t)

FsrsSort(pool, t) == FsrsSortFrom(<<>>, pool, t)

\* FsrsScheduler::populate_learning_cards.
fsrs_populate_learning_cards(s, t) ==
    LET filled == FsrsExtra(FsrsFill(s), t)
    IN  SchedFsrs(filled.new_cards, FsrsSort(filled.learning_cards, t))

\* FsrsScheduler::new.
FsrsSchedulerNew(pending, t) ==
    fsrs_populate_learning_cards(SchedFsrs(Reverse(pending), <<>>), t)

\* FsrsScheduler::rate_card: the first card of the pool is rated in place.
fsrs_rate_card(s, rating, t) ==
    IF s.learning_cards = <<>> THEN Outcome(s, "unwrap", 0)
    ELSE Outcome(
           [s EXCEPT !.learning_cards[1] =
                        FsrsRateCardState(s.learning_cards[1], rating, t)],
           "none", s.learning_cards[1].id)

fsrs_reviewed_cards(s) ==
    Len(s.learning_cards)
      - Cardinality({i \in 1..Len(s.learning_cards) : s.learning_cards[i].st = "New"})

fsrs_total_cards(s) == Len(s.new_cards) + Len(s.learning_cards)

----------------------------------------------------------------------------
(* The progress map: user_state.rs. *)

SchemeIds == {"a", "b"}

NoProgress == [scheduler |-> "None"]

\* The list given at construction: items 1..n, all New.
Deck(n) == [i \in 1..n |-> CardNew(i)]

\* TrainProgress::new(zigens, adept, v2) on a list of n items: the progress,
\* or the panic.
TrainProgressNew(n, a, v2, t) ==
    IF n = 0 THEN [failure |-> "pending_cards is empty", progress |-> NoProgress]
    ELSE IF v2
    THEN LET out == SchedulerV2New(Deck(n), t, a)
         IN  [failure |-> out.failure,
              progress |-> [scheduler |-> "V2", adept |-> a, start_time |-> t,
                            sched |-> out.sched]]
    ELSE [failure |-> "none",
          progress |-> [scheduler |-> IF a THEN "Adept" ELSE "Novice", adept |-> a,
                        start_time |-> t, sched |-> SchedulerNew(Deck(n), a)]]

\* TrainProgress::total_cards.
ProgressTotalCards(p) ==
    IF p.scheduler = "V2" THEN v2_total_cards(p.sched) ELSE total_cards(p.sched)

\* TrainProgress::get_card: the progress after the call and the panic, if any.
ProgressGetCard(p, t) ==
    IF p.scheduler = "V2"
    THEN LET out == v2_populate_learning_cards(p.sched, t, p.adept)
         IN  [failure |-> out.failure, progress |-> [p EXCEPT !.sched = out.sched]]
    ELSE [failure |-> IF ReviewStatusPanics(p.sched) THEN "unreachable"
                      ELSE IF get_card(p.sched, p.adept) = NoCard THEN "unwrap"
                      ELSE "none",
          progress |-> p]

\* TrainProgress::rate_card.
ProgressRateCard(p, rating, t) ==
    LET out == IF p.scheduler = "V2" THEN v2_rate_card(p.sched, p.adept, rating, t)
               ELSE rate_card(p.sched, p.adept, rating, t)
    IN  [failure |-> out.failure, progress |-> [p EXCEPT !.sched = out.sched]]

\* UserState::has_progress.
has_progress(id) == progresses[id] # NoProgress

\* Mutant: the entries of all decks are removed.
reset_progress_ClearsAll(id) == [i \in SchemeIds |-> NoProgress]

\* Mutant: the check for an empty card list is left out.
try_initialize_scheme_NoCheck(id, n, a, v2, t) ==
    IF ~has_progress(id)
    THEN LET made == TrainProgressNew(n, a, v2, t)
         IN  [result |-> "Ok", failure |-> made.failure,
              progresses |-> [progresses EXCEPT ![id] = made.progress]]
    ELSE [result |-> "Ok", failure |-> "none", progresses |-> progresses]

\* Mutant: the progress is built anew also for a deck that has an entry.
try_initialize_scheme_Overwrites(id, n, a, v2, t) ==
    IF n = 0
    THEN [result |-> "Err", failure |-> "none", progresses |-> progresses]
    ELSE LET made == TrainProgressNew(n, a, v2, t)
         IN  [result |-> "Ok", failure |-> made.failure,
              progresses |-> [progresses EXCEPT ![id] = made.progress]]

\* UserState::try_initialize_scheme on a scheme that yields n practice cards.
try_initialize_scheme(id, n, a, v2, t) ==
    IF ~has_progress(id)
    THEN IF n = 0
         THEN [result |-> "Err", failure |-> "none", progresses |-> progresses]
         ELSE LET made == TrainProgressNew(n, a, v2, t)
              IN  [result |-> "Ok", failure |-> made.failure,
                   progresses |-> [progresses EXCEPT ![id] = made.progress]]
    ELSE [result |-> "Ok", failure |-> "none", progresses |-> progresses]

\* UserState::reset_progress.
reset_progress(id) ==
    IF has_progress(id) THEN [progresses EXCEPT ![id] = NoProgress] ELSE progresses

\* UserState::reset_current_progress.
reset_current_progress == reset_progress(current_scheme)

----------------------------------------------------------------------------
(* Persistence: the derived Serialize and Deserialize of the schedulers and  *)
(* of the progress map, and localStorage.  A serialized value is the JSON    *)
(* object serde writes: an enum is written with its variant name as tag, a   *)
(* struct field by field, a BTreeMap with the keys it holds.                 *)

\* enum Card.
SerializeCard(card) ==
    CASE card.st = "New" -> [tag |-> "New"]
      [] card.st = "Learning" -> [tag |-> "Learning", attempts |-> card.attempts]
      [] card.st = "Review" ->
            [tag |-> "Review", last_interval |-> card.last_interval,
             repetition |-> card.repetition,
             easiness_factor |-> card.easiness_factor, due |-> card.due]

\* struct FlashCard / SchedulerV2Card: the content and the card.
SerializeFlashCard(card) == [content |-> card.id, card |-> SerializeCard(card)]

DeserializeFlashCard(json) ==
    CASE json.card.tag = "New" -> CardNew(json.content)
      [] json.card.tag = "Learning" -> CardLearning(json.content, json.card.attempts)
      [] json.card.tag = "Review" ->
            CardReview(json.content, json.card.last_interval, json.card.repetition,
                       json.card.easiness_factor, json.card.due)

SerializeCards(cards) == [i \in 1..Len(cards) |-> SerializeFlashCard(cards[i])]

DeserializeCards(json) == [i \in 1..Len(json) |-> DeserializeFlashCard(json[i])]

\* struct Scheduler.
SerializeScheduler(s) ==
    [new_cards |-> SerializeCards(s.new_cards),
     learning_cards |-> SerializeCards(s.learning_cards),
     reviewing_cards |-> SerializeCards(s.reviewing_cards),
     done_learning |-> s.done_learning]

\* Mutant: done_learning is not read back.
DeserializeScheduler_SkipsCounter(json) ==
    Sched(DeserializeCards(json.new_cards), DeserializeCards(json.learning_cards),
          DeserializeCards(json.reviewing_cards), 0)

DeserializeScheduler(json) ==
    Sched(DeserializeCards(json.new_cards), DeserializeCards(json.learning_cards),
          DeserializeCards(json.reviewing_cards), json.done_learning)

\* struct SchedulerV2.
SerializeSchedulerV2(s, a) ==
    [new_cards |-> SerializeCards(s.new_cards),
     learning_cards |-> SerializeCards(s.learning_cards),
     sched_param |-> IF a THEN "Adept" ELSE "Novice"]

DeserializeSchedulerV2(json) ==
    SchedV2(DeserializeCards(json.new_cards), DeserializeCards(json.learning_cards))

\* struct TrainProgress with its enum UsedScheduler.
SerializeProgress(p) ==
    [start_time |-> p.start_time,
     scheduler |-> [tag |-> p.scheduler,
                    value |-> IF p.scheduler = "V2"
                              THEN SerializeSchedulerV2(p.sched, p.adept)
                              ELSE SerializeScheduler(p.sched)]]

DeserializeProgress(json) ==
    LET tag == json.scheduler.tag
        value == json.scheduler.value
    IN  [scheduler |-> tag,
         adept |-> IF tag = "V2" THEN value.sched_param = "Adept" ELSE tag = "Adept",
         start_time |-> json.start_time,
         sched |-> IF tag = "V2" THEN DeserializeSchedulerV2(value)
                   ELSE DeserializeScheduler(value)]

\* localStorage before the first write: both keys are missing.
EmptyStorage == [currentScheme |-> "", progresses |-> <<>>]

\* UserState::write_to_local_storage: the value of the two keys.
write_to_local_storage(scheme, map) ==
    [currentScheme |-> scheme,
     progresses |-> [id \in {i \in SchemeIds : map[i] # NoProgress} |->
                        SerializeProgress(map[id])]]

\* UserState::read_from_local_storage: a missing key gives the default.
read_from_local_storage(storage) ==
    [current_scheme |-> storage.currentScheme,
     progresses |-> [id \in SchemeIds |->
                        IF id \in DOMAIN storage.progresses
                        THEN DeserializeProgress(storage.progresses[id])
                        ELSE NoProgress]]

----------------------------------------------------------------------------
(* The session over the interval scheduler: view/scheme.rs calls get_card,   *)
(* then rate_card and get_card in turn, through TrainProgress.              *)

\* The scheduler held in the variables.
Cur == Sched(new_cards, learning_cards, reviewing_cards, done_learning)

DeckSizes(a) ==
    {1, MaxSmallDeck, LEARNING_CARDS(a) + 1, LEARNING_CARDS(a) + MaxExtra}

\* The session starts: nothing is shown and nothing has been rated.
InitSession ==
    /\ now = 0
    /\ pc = "get"
    /\ current = NoCard
    /\ got_at = 0
    /\ rated = 0
    /\ times = [i \in 1..n_cards |-> 0]
    /\ clean = 1..n_cards
    /\ n_ratings = 0
    /\ n_nongood = 0
    /\ n_regets = 0

\* No deck is open in the progress map, and nothing has been stored.
InitNoUser ==
    /\ current_scheme = ""
    /\ progresses = [id \in SchemeIds |-> NoProgress]
    /\ init_result = "none"
    /\ built = -1
    /\ stored = EmptyStorage

\* No second scheduler runs beside a session of the other kinds.
NoTwin == Sched(<<>>, <<>>, <<>>, 0)

\* The clock of the second scheduler stands still.
TwinClock == 0

\* The deck a scheduler session practises.
SessionScheme == "a"

\* The TrainProgress that holds scheduler s in a scheduler session.
SessionProgress(s) ==
    [scheduler |-> IF kind = "V2" THEN "V2" ELSE IF adept THEN "Adept" ELSE "Novice",
     adept |-> adept, start_time |-> 0, sched |-> s]

\* on_card_completed writes the progress after rate_card has returned.
SessionWrite(out) ==
    stored' = IF out.failure # "none" THEN stored
              ELSE write_to_local_storage(
                     SessionScheme,
                     [id \in SchemeIds |->
                         IF id = SessionScheme THEN SessionProgress(out.sched)
                         ELSE NoProgress])

InitInterval ==
    /\ kind = "Interval"
    /\ adept \in BOOLEAN
    /\ n_cards \in DeckSizes(adept)
    /\ LET s == SchedulerNew(Deck(n_cards), adept)
       IN  /\ new_cards = s.new_cards
           /\ learning_cards = s.learning_cards
           /\ reviewing_cards = s.reviewing_cards
           /\ done_learning = s.done_learning
           /\ prev = s
           /\ twin = s
    /\ failure = "none"
    /\ InitSession
    /\ InitNoUser

\* Mutant: get_card takes the card out of its queue.
IntervalGetCardCall_Pops ==
    /\ kind = "Interval"
    /\ failure = "none"
    /\ get_card(Cur, adept) # NoCard
    /\ current' = get_card(Cur, adept)
    /\ got_at' = now
    /\ pc' = "rate"
    /\ IF review_status(Cur, adept) = "Learn"
       THEN learning_cards' = PopFront(learning_cards) /\ UNCHANGED reviewing_cards
       ELSE reviewing_cards' = PopFront(reviewing_cards) /\ UNCHANGED learning_cards
    /\ UNCHANGED <<kind, adept, now, n_cards, failure, new_cards, done_learning>>
    /\ UNCHANGED <<histVars, userVars, stored, twin>>

\* Scheduler::get_card (&self): nothing but the caller's view of the card changes.
IntervalGetCardCall ==
    /\ kind = "Interval"
    /\ failure = "none"
    /\ IF ReviewStatusPanics(Cur)
       THEN failure' = "unreachable" /\ UNCHANGED <<current, got_at, pc>>
       ELSE IF get_card(Cur, adept) = NoCard
            THEN failure' = "unwrap" /\ UNCHANGED <<current, got_at, pc>>
            ELSE /\ current' = get_card(Cur, adept)
                 /\ got_at' = now
                 /\ pc' = "rate"
                 /\ UNCHANGED failure
    /\ UNCHANGED <<kind, adept, now, n_cards>>
    /\ UNCHANGED <<schedVars, histVars, userVars, stored, twin>>

\* The call the view makes after construction and after each rating.
IntervalGetCard == pc = "get" /\ IntervalGetCardCall /\ UNCHANGED n_regets

\* A further get_card call with no rating in between.
IntervalGetCardAgain ==
    /\ pc = "rate"
    /\ n_regets < MaxRegets
    /\ IntervalGetCardCall
    /\ n_regets' = n_regets + 1

\* The bookkeeping of a rate_card call that rated card `id` with `rating`.
Record(id, rating, before) ==
    /\ rated' = id
    /\ prev' = before
    /\ n_ratings' = n_ratings + 1

\* The ratings each card has had, kept for the interval scheduler.
RecordCard(id, rating) ==
    /\ times' = IF id \in DOMAIN times THEN [times EXCEPT ![id] = @ + 1] ELSE times
    /\ clean' = IF rating = "Again" THEN clean \ {id} ELSE clean

\* Scheduler::rate_card(rating), called on the card the view shows.
IntervalRateCard ==
    /\ kind = "Interval"
    /\ failure = "none"
    /\ pc = "rate"
    /\ n_ratings < MaxRatings
    /\ \E rating \in Ratings :
         /\ rating # "Good" => n_nongood < MaxNonGood
         /\ LET out == rate_card(Cur, adept, rating, now)
            IN  /\ failure' = out.failure
                /\ new_cards' = out.sched.new_cards
                /\ learning_cards' = out.sched.learning_cards
                /\ reviewing_cards' = out.sched.reviewing_cards
                /\ done_learning' = out.sched.done_learning
                /\ Record(out.rated, rating, Cur)
                /\ RecordCard(out.rated, rating)
                /\ SessionWrite(out)
         /\ twin' = rate_card(twin, adept, rating, TwinClock).sched
         /\ n_nongood' = IF rating # "Good" THEN n_nongood + 1 ELSE n_nongood
    /\ pc' = "get"
    /\ UNCHANGED <<kind, adept, now, current, got_at, n_cards, n_regets>>
    /\ UNCHANGED userVars

\* A long session of a learner who answers every learning card Good and fails
\* reviews only: rate_card(Good), or rate_card(Again) on a card of the review
\* queue.
IntervalRateCardLong ==
    /\ kind = "Interval"
    /\ failure = "none"
    /\ pc = "rate"
    /\ n_ratings < MaxLongRatings
    /\ \E rating \in {"Good", "Again"} :
         /\ rating = "Again" =>
               /\ review_status(Cur, adept) # "Learn"
               /\ n_nongood < MaxFailedReviews
         /\ LET out == rate_card(Cur, adept, rating, now)
            IN  /\ failure' = out.failure
                /\ new_cards' = out.sched.new_cards
                /\ learning_cards' = out.sched.learning_cards
                /\ reviewing_cards' = out.sched.reviewing_cards
                /\ done_learning' = out.sched.done_learning
                /\ Record(out.rated, rating, Cur)
                /\ RecordCard(out.rated, rating)
                /\ SessionWrite(out)
         /\ twin' = rate_card(twin, adept, rating, TwinClock).sched
         /\ n_nongood' = IF rating # "Good" THEN n_nongood + 1 ELSE n_nongood
    /\ pc' = "get"
    /\ UNCHANGED <<kind, adept, now, current, got_at, n_cards, n_regets>>
    /\ UNCHANGED userVars

\* The long session runs over a deck larger than the learning queue.
InitIntervalLong ==
    /\ InitInterval
    /\ n_cards > LEARNING_CARDS(adept)

NextIntervalLong == IntervalGetCard \/ IntervalRateCardLong

SpecIntervalLong == InitIntervalLong /\ [][NextIntervalLong]_vars

\* Every card of the deck is a Review card in the review queue.
AllInReview ==
    /\ kind = "Interval" /\ failure = "none"
    /\ new_cards = <<>> /\ learning_cards = <<>>
    /\ Len(reviewing_cards) = n_cards
    /\ \A i \in 1..Len(reviewing_cards) : reviewing_cards[i].st = "Review"

\* A session of a learner who never fails, followed until every card is in
\* review: rate_card with Hard, Good or Easy.
IntervalRateSuccess ==
    /\ kind = "Interval"
    /\ failure = "none"
    /\ pc = "rate"
    /\ n_ratings < MaxSuccessRatings
    /\ ~AllInReview
    /\ \E rating \in Ratings \ {"Again"} :
         /\ rating # "Good" => n_nongood < MaxNonGood
         /\ LET out == rate_card(Cur, adept, rating, now)
            IN  /\ failure' = out.failure
                /\ new_cards' = out.sched.new_cards
                /\ learning_cards' = out.sched.learning_cards
                /\ reviewing_cards' = out.sched.reviewing_cards
                /\ done_learning' = out.sched.done_learning
                /\ Record(out.rated, rating, Cur)
                /\ RecordCard(out.rated, rating)
                /\ SessionWrite(out)
         /\ twin' = rate_card(twin, adept, rating, TwinClock).sched
         /\ n_nongood' = IF rating # "Good" THEN n_nongood + 1 ELSE n_nongood
    /\ pc' = "get"
    /\ UNCHANGED <<kind, adept, now, current, got_at, n_cards, n_regets>>
    /\ UNCHANGED userVars

NextIntervalSuccess == IntervalGetCard \/ IntervalRateSuccess

\* The view calls get_card after every rating and the learner goes on rating.
SpecIntervalSuccess ==
    /\ InitInterval
    /\ [][NextIntervalSuccess]_vars
    /\ WF_vars(IntervalGetCard)
    /\ WF_vars(IntervalRateSuccess)

\* Time passes between two calls.
Tick ==
    /\ failure = "none"
    /\ now + TickSeconds <= MaxNow
    /\ now' = now + TickSeconds
    /\ UNCHANGED <<kind, adept, pc, current, got_at, failure, n_cards, n_regets>>
    /\ UNCHANGED <<schedVars, histVars, userVars, stored, twin>>

NextInterval == IntervalGetCard \/ IntervalRateCard \/ Tick

SpecInterval == InitInterval /\ [][NextInterval]_vars

\* get_card may be called again before the rating.  The clock stands still
\* here: get_card of the interval scheduler does not read it.
NextIntervalApi == IntervalGetCard \/ IntervalGetCardAgain \/ IntervalRateCard

SpecIntervalApi == InitInterval /\ [][NextIntervalApi]_vars

----------------------------------------------------------------------------
(* The session over the priority scheduler. *)

CurV2 == SchedV2(new_cards, learning_cards)

InitV2 ==
    /\ kind = "V2"
    /\ adept \in BOOLEAN
    /\ n_cards \in DeckSizes(adept)
    /\ LET out == SchedulerV2New(Deck(n_cards), 0, adept)
       IN  /\ new_cards = out.sched.new_cards
           /\ learning_cards = out.sched.learning_cards
           /\ failure = out.failure
           /\ prev = out.sched
    /\ twin = NoTwin
    /\ reviewing_cards = <<>>
    /\ done_learning = 0
    /\ InitSession
    /\ InitNoUser

\* SchedulerV2::get_card (&mut self): the pool is refilled, sorted and swapped,
\* and its first card is returned.
V2GetCardCall ==
    /\ kind = "V2"
    /\ failure = "none"
    /\ LET out == v2_populate_learning_cards(CurV2, now, adept)
       IN  /\ failure' = out.failure
           /\ new_cards' = out.sched.new_cards
           /\ learning_cards' = out.sched.learning_cards
           /\ current' = IF out.failure = "none" THEN out.sched.learning_cards[1]
                         ELSE current
    /\ got_at' = now
    /\ pc' = "rate"
    /\ UNCHANGED <<kind, adept, reviewing_cards, done_learning, now, n_cards>>
    /\ UNCHANGED <<histVars, userVars, stored, twin>>

\* The call the view makes after construction and after each rating.
V2GetCard == pc = "get" /\ V2GetCardCall /\ UNCHANGED n_regets

\* A further get_card call with no rating in between.
V2GetCardAgain ==
    /\ pc = "rate"
    /\ n_regets < MaxRegets
    /\ V2GetCardCall
    /\ n_regets' = n_regets + 1

\* The rating enters the transition of a Review card only (Card::rate_card
\* reads it in that arm alone), and only there it is counted as other than Good.
V2RatingCounts(rating) ==
    /\ rating # "Good"
    /\ learning_cards # <<>>
    /\ learning_cards[1].st = "Review"

\* SchedulerV2::rate_card(rating), called on the card the view shows.
V2RateCard ==
    /\ kind = "V2"
    /\ failure = "none"
    /\ pc = "rate"
    /\ n_ratings < MaxRatingsV2
    /\ \E rating \in Ratings :
         /\ V2RatingCounts(rating) => n_nongood < MaxNonGood
         /\ LET out == v2_rate_card(CurV2, adept, rating, now)
            IN  /\ failure' = out.failure
                /\ new_cards' = out.sched.new_cards
                /\ learning_cards' = out.sched.learning_cards
                /\ Record(out.rated, rating, CurV2)
                /\ SessionWrite(out)
         /\ UNCHANGED twin
         /\ n_nongood' = IF V2RatingCounts(rating) THEN n_nongood + 1 ELSE n_nongood
    /\ UNCHANGED <<times, clean>>
    /\ pc' = "get"
    /\ UNCHANGED <<kind, adept, reviewing_cards, done_learning, now, current,
                   got_at, n_cards, n_regets>>
    /\ UNCHANGED userVars

NextV2 == V2GetCard \/ V2RateCard \/ Tick

SpecV2 == InitV2 /\ [][NextV2]_vars

\* The clock is held fixed where get_card is called twice in a row.
NextV2Api == V2GetCard \/ V2GetCardAgain \/ V2RateCard

SpecV2Api == InitV2 /\ [][NextV2Api]_vars

\* Either scheduler, as TrainProgress::new builds it.
Init == InitInterval \/ InitV2

Next == NextInterval \/ NextV2

Spec == Init /\ [][Next]_vars

----------------------------------------------------------------------------
(* The session over the FSRS scheduler.  The program builds no              *)
(* FsrsScheduler (TrainProgress::new knows the other two only); the session  *)
(* drives its public functions as the view drives the other schedulers.     *)

CurFsrs == SchedFsrs(new_cards, learning_cards)

FsrsDeck(n) == [i \in 1..n |-> FsrsCardNew(i)]

FsrsDeckSizes ==
    {1, MaxSmallDeck, MINIMUM_LEARNING_CARDS + 1, MINIMUM_LEARNING_CARDS + MaxExtra}

InitFsrs ==
    /\ kind = "Fsrs"
    /\ adept = FALSE
    /\ n_cards \in FsrsDeckSizes
    /\ LET s == FsrsSchedulerNew(FsrsDeck(n_cards), 0)
       IN  /\ new_cards = s.new_cards
           /\ learning_cards = s.learning_cards
           /\ prev = s
    /\ twin = NoTwin
    /\ reviewing_cards = <<>>
    /\ done_learning = 0
    /\ failure = "none"
    /\ InitSession
    /\ InitNoUser

\* FsrsScheduler::get_card (&mut self): the pool is refilled and sorted, and
\* its first card is returned.
FsrsGetCard ==
    /\ kind = "Fsrs"
    /\ failure = "none"
    /\ pc = "get"
    /\ LET s == fsrs_populate_learning_cards(CurFsrs, now)
       IN  /\ new_cards' = s.new_cards
           /\ learning_cards' = s.learning_cards
           /\ IF s.learning_cards = <<>>
              THEN failure' = "unwrap" /\ UNCHANGED current
              ELSE current' = s.learning_cards[1] /\ UNCHANGED failure
    /\ got_at' = now
    /\ pc' = "rate"
    /\ UNCHANGED <<kind, adept, reviewing_cards, done_learning, now, n_cards,
                   n_regets>>
    /\ UNCHANGED <<histVars, userVars, stored, twin>>

\* FsrsScheduler::rate_card(rating), called on the card shown.
FsrsRateCard ==
    /\ kind = "Fsrs"
    /\ failure = "none"
    /\ pc = "rate"
    /\ n_ratings < MaxRatingsFsrs
    /\ \E rating \in Ratings :
         /\ rating # "Good" => n_nongood < MaxNonGoodFsrs
         /\ LET out == fsrs_rate_card(CurFsrs, rating, now)
            IN  /\ failure' = out.failure
                /\ new_cards' = out.sched.new_cards
                /\ learning_cards' = out.sched.learning_cards
                /\ Record(out.rated, rating, CurFsrs)
         /\ n_nongood' = IF rating # "Good" THEN n_nongood + 1 ELSE n_nongood
    /\ UNCHANGED <<times, clean>>
    /\ pc' = "get"
    /\ UNCHANGED <<kind, adept, reviewing_cards, done_learning, now, current,
                   got_at, n_cards, n_regets>>
    /\ UNCHANGED <<userVars, stored, twin>>

NextFsrs == FsrsGetCard \/ FsrsRateCard \/ Tick

SpecFsrs == InitFsrs /\ [][NextFsrs]_vars

\* The learner leaves and comes back: a long pause between two calls.
FsrsLongPause ==
    /\ kind = "Fsrs"
    /\ failure = "none"
    /\ now + MaxElapsed <= MaxElapsed
    /\ now' = now + MaxElapsed
    /\ UNCHANGED <<kind, adept, pc, current, got_at, failure, n_cards, n_regets>>
    /\ UNCHANGED <<schedVars, histVars, userVars, stored, twin>>

NextFsrsLong == FsrsGetCard \/ FsrsRateCard \/ FsrsLongPause

SpecFsrsLong == InitFsrs /\ [][NextFsrsLong]_vars

----------------------------------------------------------------------------
(* One FSRS card after its first rating, watched second by second:          *)
(* Card::get_retrievability is evaluated at `got_at` and, a second later,   *)
(* at `now`.                                                                 *)

InitFsrsCard ==
    /\ kind = "FsrsCard"
    /\ adept = FALSE
    /\ n_cards = 1
    /\ new_cards = <<>>
    /\ \E rating \in Ratings :
         learning_cards = <<FsrsRateCardState(FsrsCardNew(1), rating, 0)>>
    /\ prev = SchedFsrs(<<>>, <<FsrsCardNew(1)>>)
    /\ twin = NoTwin
    /\ reviewing_cards = <<>>
    /\ done_learning = 0
    /\ failure = "none"
    /\ InitSession
    /\ InitNoUser

\* A second passes and the retrievability is read again.
FsrsCardElapse ==
    /\ kind = "FsrsCard"
    /\ now < MaxElapsed
    /\ got_at' = now
    /\ now' = now + 1
    /\ UNCHANGED <<kind, adept, pc, current, failure, n_cards, n_regets>>
    /\ UNCHANGED <<schedVars, histVars, userVars, stored, twin>>

NextFsrsCard == FsrsCardElapse

SpecFsrsCard == InitFsrsCard /\ [][NextFsrsCard]_vars

\* Any of the three schedulers.
InitSchedulers == InitInterval \/ InitV2 \/ InitFsrs

NextSchedulers == NextInterval \/ NextV2 \/ NextFsrs

SpecSchedulers == InitSchedulers /\ [][NextSchedulers]_vars

----------------------------------------------------------------------------
(* The session over the progress map: a view reads the UserState from        *)
(* localStorage, then opens a deck (try_initialize_scheme, get_card) and     *)
(* rates its cards, or resets a deck.  current_scheme and progresses are     *)
(* the UserState of the view that is open.                                   *)

InitUser ==
    /\ kind = "User"
    /\ adept = FALSE
    /\ n_cards = 0
    /\ new_cards = <<>>
    /\ learning_cards = <<>>
    /\ reviewing_cards = <<>>
    /\ done_learning = 0
    /\ prev = Cur
    /\ twin = NoTwin
    /\ failure = "none"
    /\ InitSession
    /\ InitNoUser

\* UserState::read_from_local_storage(): each view builds its UserState from
\* localStorage before it calls any of the functions below; what an earlier
\* UserState held and did not write is gone.
UserReadFromLocalStorage ==
    /\ kind = "User"
    /\ failure = "none"
    /\ pc # "loaded"
    /\ current_scheme' = read_from_local_storage(stored).current_scheme
    /\ progresses' = read_from_local_storage(stored).progresses
    /\ init_result' = "none"
    /\ pc' = "loaded"
    /\ UNCHANGED <<kind, adept, now, current, got_at, n_cards, n_regets, built,
                   failure, stored, twin>>
    /\ UNCHANGED <<schedVars, histVars>>

\* Scheme (view/scheme.rs): the deck is opened with the chosen options.
UserTryInitializeScheme ==
    /\ kind = "User"
    /\ failure = "none"
    /\ pc = "loaded"
    /\ \E id \in SchemeIds, n \in 0..MaxUserDeck, a \in BOOLEAN, v2 \in BOOLEAN :
         LET res == try_initialize_scheme(id, n, a, v2, now)
         IN  /\ current_scheme' = id
             /\ progresses' = res.progresses
             /\ init_result' = res.result
             /\ failure' = res.failure
             /\ pc' = IF res.result = "Ok" THEN "get" ELSE "closed"
    /\ UNCHANGED <<kind, adept, now, current, got_at, n_cards, n_regets, built,
                   stored, twin>>
    /\ UNCHANGED <<schedVars, histVars>>

\* Scheme: the first card of the opened deck is fetched.
UserGetCard ==
    /\ kind = "User"
    /\ failure = "none"
    /\ pc = "get"
    /\ init_result = "Ok"
    /\ LET res == ProgressGetCard(progresses[current_scheme], now)
       IN  /\ failure' = res.failure
           /\ progresses' = [progresses EXCEPT ![current_scheme] = res.progress]
    /\ pc' = "rate"
    /\ UNCHANGED <<kind, adept, now, current, got_at, n_cards, n_regets,
                   current_scheme, init_result, built, stored, twin>>
    /\ UNCHANGED <<schedVars, histVars>>

\* on_card_completed: rate_card, the snapshot is written, get_card.
UserCardCompleted ==
    /\ kind = "User"
    /\ failure = "none"
    /\ pc = "rate"
    /\ n_ratings < MaxUserRatings
    /\ \E rating \in Ratings :
         LET r == ProgressRateCard(progresses[current_scheme], rating, now)
             g == ProgressGetCard(r.progress, now)
         IN  /\ failure' = IF r.failure # "none" THEN r.failure ELSE g.failure
             /\ progresses' = [progresses EXCEPT ![current_scheme] =
                                  IF r.failure # "none" THEN @ ELSE g.progress]
             /\ stored' = IF r.failure # "none" THEN stored
                          ELSE write_to_local_storage(
                                 current_scheme,
                                 [progresses EXCEPT ![current_scheme] = r.progress])
    /\ n_ratings' = n_ratings + 1
    /\ UNCHANGED <<kind, adept, now, pc, current, got_at, n_cards, n_regets,
                   current_scheme, init_result, built, twin>>
    /\ UNCHANGED <<schedVars, rated, prev, times, clean, n_nongood>>

\* Welcome (view/welcome.rs): the progress of the selected deck is reset.
UserResetProgress ==
    /\ kind = "User"
    /\ failure = "none"
    /\ pc = "loaded"
    /\ \E id \in SchemeIds : progresses' = reset_progress(id)
    /\ stored' = write_to_local_storage(current_scheme, progresses')
    /\ pc' = "closed"
    /\ UNCHANGED <<kind, adept, now, current, got_at, n_cards, n_regets,
                   current_scheme, init_result, built, failure, twin>>
    /\ UNCHANGED <<schedVars, histVars>>

\* Trainer (view/mod.rs): the progress of the open deck is reset.
UserResetCurrentProgress ==
    /\ kind = "User"
    /\ failure = "none"
    /\ pc = "loaded"
    /\ current_scheme \in SchemeIds
    /\ progresses' = reset_current_progress
    /\ stored' = write_to_local_storage(current_scheme, progresses')
    /\ pc' = "closed"
    /\ UNCHANGED <<kind, adept, now, current, got_at, n_cards, n_regets,
                   current_scheme, init_result, built, failure, twin>>
    /\ UNCHANGED <<schedVars, histVars>>

\* TrainProgress::new called on its own.
UserTrainProgressNew ==
    /\ kind = "User"
    /\ failure = "none"
    /\ \E n \in 0..MaxUserDeck, a \in BOOLEAN, v2 \in BOOLEAN :
         LET made == TrainProgressNew(n, a, v2, now)
         IN  /\ built' = IF made.failure = "none"
                          THEN ProgressTotalCards(made.progress) ELSE built
             /\ failure' = made.failure
    /\ UNCHANGED <<kind, adept, now, pc, current, got_at, n_cards, n_regets,
                   current_scheme, progresses, init_result, stored, twin>>
    /\ UNCHANGED <<schedVars, histVars>>

NextUser ==
    \/ UserReadFromLocalStorage
    \/ UserTryInitializeScheme
    \/ UserGetCard
    \/ UserCardCompleted
    \/ UserResetProgress
    \/ UserResetCurrentProgress
    \/ UserTrainProgressNew

SpecUser == InitUser /\ [][NextUser]_vars

----------------------------------------------------------------------------
(* The claims. *)

\* Every card the scheduler holds, container after container.
AllCards == new_cards \o learning_cards \o reviewing_cards

AllOf(s) ==
    IF "reviewing_cards" \in DOMAIN s
    THEN s.new_cards \o s.learning_cards \o s.reviewing_cards
    ELSE s.new_cards \o s.learning_cards

\* The card with id i among the cards `cards` (NoCard if there is none).
CardIn(cards, i) ==
    IF \E k \in 1..Len(cards) : cards[k].id = i
    THEN cards[CHOOSE k \in 1..Len(cards) : cards[k].id = i]
    ELSE NoCard

CardOf(i) == CardIn(AllCards, i)

TotalCards == IF kind = "V2" THEN v2_total_cards(CurV2) ELSE total_cards(Cur)

\* C1. Conservation: total_cards() is the number of items supplied at
\* construction, and every supplied card is held exactly once, in one of the
\* containers, after construction and after every get_card and rate_card.
C1_Conservation ==
    /\ TotalCards = n_cards
    /\ \A i \in 1..n_cards :
          Cardinality({k \in 1..Len(AllCards) : AllCards[k].id = i}) = 1

\* C1 witness: ratings have moved cards, and a promoted card sits in the review
\* queue while others are in the learning queue.
C1_Witness ==
    /\ kind = "Interval"
    /\ n_ratings > 0
    /\ learning_cards # <<>>
    /\ reviewing_cards # <<>>

\* C2. The interval scheduler never panics, and the queue its phase points to
\* is never empty: Learn implies a non-empty learning queue, Review and
\* ReviewIntersperse imply a non-empty review queue.
C2_PhaseQueueNonEmpty ==
    /\ failure = "none"
    /\ review_status(Cur, adept) = "Learn" => learning_cards # <<>>
    /\ review_status(Cur, adept) \in {"Review", "ReviewIntersperse"}
          => reviewing_cards # <<>>

\* C2 witness: every card has been flushed, the learning queue is empty and
\* the phase has to be Review.
C2_Witness ==
    /\ n_ratings > 0
    /\ learning_cards = <<>>
    /\ pc = "rate"

\* The card at the place the phase of scheduler s points to (interval), or the
\* first card of the pool (v2).
CardAtPlace(s) ==
    IF kind # "Interval" THEN s.learning_cards[1]
    ELSE CASE review_status(s, adept) = "Learn" -> Front(s.learning_cards)
           [] review_status(s, adept) = "Review" -> Front(s.reviewing_cards)
           [] review_status(s, adept) = "ReviewIntersperse" -> Back(s.reviewing_cards)

\* C3. Under strict alternation rate_card rates the card the preceding
\* get_card returned: the card rate_card took from the front of the learning
\* queue (Learn), the head (Review) or the tail (ReviewIntersperse) of the
\* review queue, or the first place of the pool (v2), is the card shown.
C3_RatesShownCard ==
    (pc = "get" /\ n_ratings > 0 /\ failure = "none")
        => /\ rated = current.id
           /\ current = CardAtPlace(prev)

\* C3 witness: a rating was applied in an interspersed review, to the tail of
\* a review queue of several cards.
C3_Witness ==
    /\ pc = "get"
    /\ kind = "Interval"
    /\ n_ratings > 0
    /\ failure = "none"
    /\ review_status(prev, adept) = "ReviewIntersperse"
    /\ Len(prev.reviewing_cards) > 1
    /\ rated = Back(prev.reviewing_cards).id

\* C4. get_card of the interval scheduler changes no queue, no card and not
\* done_learning, and a get_card call that follows a get_card call returns
\* the same card.
C4_GetCardReadOnly ==
    [][n_ratings' = n_ratings
          => /\ UNCHANGED schedVars
             /\ (pc = "rate" /\ pc' = "rate") => current' = current]_vars

\* C4 witness: get_card was called twice in a row, after some ratings.
C4_Witness ==
    /\ kind = "Interval"
    /\ n_regets > 0
    /\ n_ratings > 0
    /\ pc = "rate"

\* C5. get_card of the priority scheduler is idempotent: with the clock held
\* fixed, a get_card call that follows a get_card call returns the same card
\* and leaves the pool and the stack as they were.
C5_GetCardIdempotent ==
    [][(pc = "rate" /\ pc' = "rate" /\ n_regets' # n_regets /\ now = got_at)
          => /\ current' = current
             /\ UNCHANGED <<new_cards, learning_cards>>]_vars

\* C6. An empty deck is refused: try_initialize_scheme returns Err and stores
\* nothing, TrainProgress::new panics, and no progress over zero cards exists.
C6_EmptyDeckRefused ==
    /\ \A id \in SchemeIds :
          has_progress(id) => ProgressTotalCards(progresses[id]) > 0
    /\ built # 0
    /\ init_result = "Err" => ~has_progress(current_scheme)
    /\ \A id \in SchemeIds, a \in BOOLEAN, v2 \in BOOLEAN :
          ~has_progress(id) =>
              LET res == try_initialize_scheme(id, 0, a, v2, now)
              IN  /\ res.result = "Err"
                  /\ res.progresses = progresses
    /\ \A a \in BOOLEAN, v2 \in BOOLEAN :
          TrainProgressNew(0, a, v2, now).failure # "none"

\* C6 witness: a deck without cards was opened and refused while another deck
\* has progress.
C6_Witness ==
    /\ init_result = "Err"
    /\ \E id \in SchemeIds : has_progress(id)

\* C7. Novice parameters: a card whose first 3 ratings were all successful is
\* a Review card after its 3rd rating.
C7_ReviewAfterThreeSuccesses ==
    \A i \in 1..n_cards :
        (kind = "Interval" /\ ~adept /\ times[i] = 3 /\ i \in clean)
            => CardOf(i).st = "Review"

AgainOutcome == rate_card(Cur, adept, "Again", now)

EndsInLearning(out, id) ==
    /\ id \in Ids(out.sched.learning_cards)
    /\ CardIn(AllOf(out.sched), id) = CardLearning(id, 1)

EndsInReview(out, id, t) ==
    /\ id \in Ids(out.sched.reviewing_cards)
    /\ CardIn(AllOf(out.sched), id).st = "Review"
    /\ CardIn(AllOf(out.sched), id).repetition = 0
    /\ CardIn(AllOf(out.sched), id).last_interval = 3
    /\ CardIn(AllOf(out.sched), id).due = t + 60

ReviewCardShown ==
    /\ kind = "Interval"
    /\ pc = "rate"
    /\ failure = "none"
    /\ review_status(Cur, adept) # "Learn"

C10_EasinessFloor ==
    \A k \in 1..Len(AllCards) :
        AllCards[k].st = "Review" => AllCards[k].easiness_factor >= 130

\* C10 witness: a rating has brought an easiness factor down to the floor.
C10_Witness ==
    \E k \in 1..Len(AllCards) :
        /\ AllCards[k].st = "Review"
        /\ AllCards[k].easiness_factor = 130
        /\ AllCards[k].id = rated

\* C11. The learning queue of the interval scheduler is bounded: after
\* construction and after every rate_card it holds at most LEARNING_CARDS
\* cards (10 for Novice, 7 for Adept).
C11_LearningQueueBounded ==
    kind = "Interval" => Len(learning_cards) <= LEARNING_CARDS(adept)

\* C12. No repeat in the priority scheduler: under strict alternation, when
\* the pool holds at least 2 cards, the card get_card returns after a rating is
\* not the card that was rated just before, also when the sort leaves the
\* rated card in first place.
C12_NoRepeat ==
    (kind = "V2" /\ pc = "rate" /\ n_ratings > 0 /\ failure = "none"
       /\ Len(learning_cards) >= 2)
        => current.id # rated

\* C12 witness: the card shown does not sort before the rated card, which the
\* stable sort therefore left in first place; the swap has put it second.
C12_Witness ==
    /\ kind = "V2" /\ pc = "rate" /\ n_ratings > 0 /\ failure = "none"
    /\ Len(learning_cards) >= 2
    /\ learning_cards[2].id = rated
    /\ V2Compare(learning_cards[1], learning_cards[2], got_at, adept) # "Less"

\* The progress a reloaded page restores from localStorage, and the progress
\* of the session that was not interrupted.
Restored == read_from_local_storage(stored).progresses[SessionScheme]

Uninterrupted == SessionProgress(IF kind = "V2" THEN CurV2 ELSE Cur)

\* The card TrainProgress::get_card presents at time t.
Presented(p, t) ==
    IF p.scheduler = "V2"
    THEN LET out == v2_populate_learning_cards(p.sched, t, p.adept)
         IN  IF out.failure = "none" THEN out.sched.learning_cards[1] ELSE NoCard
    ELSE get_card(p.sched, p.adept)

TimeFree(card) == [card EXCEPT !.due = 0]

TimeFreeCards(cards) == [i \in 1..Len(cards) |-> TimeFree(cards[i])]

TimeFreeSched(s) ==
    Sched(TimeFreeCards(s.new_cards), TimeFreeCards(s.learning_cards),
          TimeFreeCards(s.reviewing_cards), s.done_learning)

\* C14. The interval scheduler is deterministic and independent of time: two
\* schedulers built from the same list and given the same ratings, at whatever
\* times, hold the same cards in the same order in each queue, with the same
\* attempts, repetition, interval and easiness and the same done_learning,
\* are in the same phase and present the same card.
C14_TimeIndependent ==
    (kind = "Interval" /\ failure = "none")
        => /\ TimeFreeSched(twin) = TimeFreeSched(Cur)
           /\ review_status(twin, adept) = review_status(Cur, adept)
           /\ get_card(twin, adept).id = get_card(Cur, adept).id

\* C14 witness: the two schedulers have rated a Review card at different
\* times, one of them after the card had fallen due.
C14_Witness ==
    /\ kind = "Interval" /\ failure = "none" /\ pc = "get"
    /\ rated # 0
    /\ CardIn(AllOf(prev), rated).st = "Review"
    /\ CardIn(AllOf(prev), rated).due < now
    /\ CardIn(AllOf(twin), rated).due # CardOf(rated).due

\* reviewed_cards() of the scheduler that is running.
ReviewedCards ==
    CASE kind = "V2" -> v2_reviewed_cards(CurV2)
      [] kind = "Fsrs" -> fsrs_reviewed_cards(CurFsrs)
      [] OTHER -> reviewed_cards(Cur)

\* The cards of the pool or of a queue that are no longer New.
NotNew == {k \in 1..Len(AllCards) : AllCards[k].st # "New"}

\* C15. reviewed_cards() is the number of distinct cards rated at least once:
\* it is 0 at construction, counts exactly the cards that are not New, is at
\* most total_cards(), grows by 1 with a rating of a New card and stays with
\* any other rating and with any get_card; in the interval scheduler it is
\* the number of cards with a rating on record.
C15_ReviewedCount ==
    /\ [](/\ ReviewedCards = Cardinality(NotNew)
          /\ ReviewedCards <= TotalCards
          /\ n_ratings = 0 => ReviewedCards = 0
          /\ kind = "Interval"
                => ReviewedCards = Cardinality({i \in 1..n_cards : times[i] > 0}))
    /\ [][IF n_ratings' # n_ratings /\ failure' = "none"
             /\ CardIn(AllOf(prev'), rated').st = "New"
          THEN ReviewedCards' = ReviewedCards + 1
          ELSE ReviewedCards' = ReviewedCards]_vars

\* C15 witness: some cards have been rated several times, others never, and a
\* card that is still New has been pulled into the pool of the priority
\* scheduler.
C15_Witness ==
    /\ kind = "V2"
    /\ n_ratings > ReviewedCards
    /\ ReviewedCards > 1
    /\ ReviewedCards < Len(learning_cards)
    /\ new_cards # <<>>

\* The card with id i before the last rate_card.
CardBefore(i) == CardIn(AllOf(prev), i)

\* A rate_card call of the interval scheduler has returned.
AfterIntervalRating ==
    kind = "Interval" /\ pc = "get" /\ n_ratings > 0 /\ failure = "none"

\* The last rate_card emptied the learning queue into the review queue.
Flushed == prev.learning_cards # <<>> /\ learning_cards = <<>>

\* C16 as stated. After a rate_card call every card other than the rated one
\* has the variant and the attempts, repetition, last_interval and
\* easiness_factor it had before the call.
C16_OnlyRatedCardChanges ==
    AfterIntervalRating
        => \A i \in 1..n_cards : i # rated => CardOf(i) = CardBefore(i)

\* C16 as amended. After a rate_card call every card other than the rated one
\* is as it was before the call, except in the call that empties the learning
\* queue: there every held card, a Learning card with MAX_LEARNING_ATTEMPTS
\* attempts or more, becomes Review with interval 1, repetition 1 and
\* easiness 2.5, due when the rated card is due.
C16_OnlyRatedOrFlushed ==
    AfterIntervalRating
        => \A i \in 1..n_cards :
              i # rated
                => \/ CardOf(i) = CardBefore(i)
                   \/ /\ Flushed
                      /\ prev.new_cards = <<>>
                      /\ Mastered(CardBefore(i), adept)
                      /\ CardOf(i) = CardReview(i, 1, 1, 250, CardOf(rated).due)

\* C16 witness: a rating has flushed a learning queue of several cards.
C16_Witness ==
    /\ AfterIntervalRating
    /\ Flushed
    /\ \E i \in 1..n_cards : i # rated /\ CardOf(i) # CardBefore(i)

\* The cards of a progress, container after container.
ProgressCards(p) == AllOf(p.sched)

\* C17. Reset: reset_progress(id) and reset_current_progress remove the entry
\* of that deck and leave the entry of every other deck as it is; where the
\* deck has no progress, try_initialize_scheme over a non-empty card list
\* succeeds and creates a scheduler that holds every card as New.
C17_Reset ==
    kind = "User" =>
        /\ \A id \in SchemeIds :
              /\ reset_progress(id)[id] = NoProgress
              /\ \A other \in SchemeIds \ {id} :
                    reset_progress(id)[other] = progresses[other]
        /\ current_scheme \in SchemeIds
              => /\ reset_current_progress[current_scheme] = NoProgress
                 /\ \A other \in SchemeIds \ {current_scheme} :
                       reset_current_progress[other] = progresses[other]
        /\ \A id \in SchemeIds, n \in 1..MaxUserDeck, a \in BOOLEAN, v2 \in BOOLEAN :
              ~has_progress(id) =>
                  LET res == try_initialize_scheme(id, n, a, v2, now)
                      cards == ProgressCards(res.progresses[id])
                  IN  /\ res.result = "Ok"
                      /\ res.failure = "none"
                      /\ Len(cards) = n
                      /\ \A k \in 1..n : cards[k].st = "New"
                      /\ \A other \in SchemeIds \ {id} :
                            res.progresses[other] = progresses[other]

\* The only card of a stored one-card deck was rated exactly once.
RatedOnce(json) ==
    LET cards == json.scheduler.value.learning_cards
    IN  /\ Len(cards) = 1
        /\ cards[1].card.tag = "Learning"
        /\ cards[1].card.attempts = 0

\* C17 witness: two ratings were given, one of them in another deck, whose
\* stored entry shows it; the deck that got the other rating has no stored
\* entry any more (it was reset) and is open again with every card New.
C17_Witness ==
    /\ kind = "User"
    /\ init_result = "Ok"
    /\ current_scheme \in SchemeIds
    /\ has_progress(current_scheme)
    /\ \A k \in 1..Len(ProgressCards(progresses[current_scheme])) :
          ProgressCards(progresses[current_scheme])[k].st = "New"
    /\ DOMAIN stored.progresses = SchemeIds \ {current_scheme}
    /\ \A other \in DOMAIN stored.progresses : RatedOnce(stored.progresses[other])
    /\ n_ratings = 2

\* C18. Retrievability of a reviewed FSRS card: it is 1 at the instant of the
\* review, and at every later instant it is strictly less than it was at any
\* instant before.
C18_StrictlyDecreasing ==
    kind = "FsrsCard" =>
        LET card == learning_cards[1]
        IN  /\ get_retrievability(card, card.last_reviewed) = FP
            /\ got_at < now => RetrievabilityFalls(card, got_at, now)

\* C19. In the FSRS scheduler every card that has been rated has a stability
\* above 0 and a difficulty above 0, after every rating.
C19_StabilityDifficultyPositive ==
    kind = "Fsrs" =>
        \A k \in 1..Len(AllCards) :
            AllCards[k].st = "Review" =>
                /\ AllCards[k].stability > 0
                /\ AllCards[k].difficulty > 0

\* The learning ratings after which a review is due: LEARN_REVIEW_RATIO while
\* cards are left on the stack, and from then on the number of cards of the
\* learning queue that are New or have fewer than MAX_LEARNING_ATTEMPTS
\* attempts.
PhaseThreshold(s) ==
    IF s.new_cards # <<>> THEN LEARN_REVIEW_RATIO(adept)
    ELSE Cardinality({i \in 1..Len(s.learning_cards) :
             \/ s.learning_cards[i].st = "New"
             \/ s.learning_cards[i].attempts < MAX_LEARNING_ATTEMPTS(adept)})

\* The phase of scheduler s by the rule of C20.
PhaseByRule(s) ==
    IF s.reviewing_cards = <<>> \/ s.done_learning < PhaseThreshold(s) THEN "Learn"
    ELSE IF s.learning_cards # <<>> THEN "ReviewIntersperse"
    ELSE "Review"

LearnCardShown ==
    /\ kind = "Interval"
    /\ pc = "rate"
    /\ failure = "none"
    /\ review_status(Cur, adept) = "Learn"

\* The attempts count the ratchet gives: a failure takes a positive count to 0
\* and any other count down by 1; a success takes a negative count to 0 and
\* any other count up by 1.
RatchetCount(a, rating) ==
    IF rating = "Again" THEN (IF a > 0 THEN 0 ELSE a - 1)
    ELSE (IF a < 0 THEN 0 ELSE a + 1)

\* The shown card after rate_card(rating).
ShownAfter(rating) == CardIn(AllOf(rate_card(Cur, adept, rating, now).sched), current.id)

\* C21 as stated. A New card becomes Learning 0 with any rating; a Learning
\* card's count follows the ratchet, and the card leaves Learning exactly when
\* the new count is at least MAX_LEARNING_ATTEMPTS.
C21_Ratchet ==
    LearnCardShown =>
        \A rating \in Ratings :
            /\ rate_card(Cur, adept, rating, now).failure = "none"
            /\ current.st = "New" => ShownAfter(rating) = CardLearning(current.id, 0)
            /\ current.st = "Learning" =>
                  LET count == RatchetCount(current.attempts, rating)
                  IN  IF count >= MAX_LEARNING_ATTEMPTS(adept)
                      THEN ShownAfter(rating).st = "Review"
                      ELSE ShownAfter(rating) = CardLearning(current.id, count)

\* C21 as amended. As above, but a card whose new count is at least
\* MAX_LEARNING_ATTEMPTS leaves Learning with that rating only if cards are
\* left on the stack (or more than LEARNING_CARDS other cards are in the
\* learning queue) or every other card of the learning queue has such a count
\* as well; otherwise it stays Learning with the new count.
C21_RatchetWithHold ==
    LearnCardShown =>
        \A rating \in Ratings :
            /\ rate_card(Cur, adept, rating, now).failure = "none"
            /\ current.st = "New" => ShownAfter(rating) = CardLearning(current.id, 0)
            /\ current.st = "Learning" =>
                  LET count == RatchetCount(current.attempts, rating)
                      others == Tail(learning_cards)
                      leaves ==
                        /\ count >= MAX_LEARNING_ATTEMPTS(adept)
                        /\ \/ new_cards # <<>>
                           \/ Len(others) > LEARNING_CARDS(adept)
                           \/ \A k \in 1..Len(others) :
                                 others[k].attempts >= MAX_LEARNING_ATTEMPTS(adept)
                  IN  IF leaves
                      THEN ShownAfter(rating) = CardReview(current.id, 1, 1, 250, now + 86400)
                      ELSE ShownAfter(rating) = CardLearning(current.id, count)

\* C21 witness: with the stack empty, the last rating brought a learning card
\* to MAX_LEARNING_ATTEMPTS and the card is still Learning.
C21_Witness ==
    /\ AfterIntervalRating
    /\ review_status(prev, adept) = "Learn"
    /\ prev.new_cards = <<>>
    /\ CardOf(rated).st = "Learning"
    /\ CardOf(rated).attempts = MAX_LEARNING_ATTEMPTS(adept)
    /\ CardIn(AllOf(prev), rated).attempts = MAX_LEARNING_ATTEMPTS(adept) - 1

\* The review queue after the flush of the cards `held`, by the rule of C22:
\* front first, each card with the Review defaults at index
\* min(attempts * 13 / 10, length of the review queue at that moment).
RECURSIVE FlushByRule(_, _, _)
FlushByRule(held, rc, t) ==
    IF held = <<>> THEN rc
    ELSE LET card == Head(held)
             at == Min((card.attempts * 13) \div 10, Len(rc))
         IN  FlushByRule(Tail(held),
                         SubSeq(rc, 1, at)
                           \o <<CardReview(card.id, 1, 1, 250, t + 86400)>>
                           \o SubSeq(rc, at + 1, Len(rc)),
                         t)

AllMastered(cards) ==
    \A k \in 1..Len(cards) :
        cards[k].st = "Learning" /\ cards[k].attempts >= MAX_LEARNING_ATTEMPTS(adept)

\* A card that waited in the learning queue with attempts at or above
\* MAX_LEARNING_ATTEMPTS is in the review queue of scheduler `after`.
HeldCardPromoted(after) ==
    \E k \in 2..Len(learning_cards) :
        /\ AllMastered(<<learning_cards[k]>>)
        /\ learning_cards[k].id \in Ids(after.reviewing_cards)

C23_NoOutOfRange ==
    (kind = "Interval" /\ pc = "rate" /\ failure = "none") =>
        /\ \A rating \in Ratings : rate_card(Cur, adept, rating, now).failure = "none"
        /\ LEARNING_INTERVALS_S(adept) # <<>>
        /\ LEARNING_INTERVALS_F(adept) # <<>>
        /\ (review_status(Cur, adept) = "Learn" /\ current.st = "Learning") =>
              \A rating \in Ratings :
                  LET count == RatchetCount(current.attempts, rating)
                  IN  /\ count < 0 =>
                            Min(-count, Len(LEARNING_INTERVALS_F(adept)) - 1)
                              < Len(LEARNING_INTERVALS_F(adept))
                      /\ (count >= 0 /\ count < MAX_LEARNING_ATTEMPTS(adept)) =>
                            Min(count, Len(LEARNING_INTERVALS_S(adept)) - 1)
                              < Len(LEARNING_INTERVALS_S(adept))
        /\ (review_status(Cur, adept) # "Learn" /\ learning_cards # <<>>) =>
              Len(learning_cards) >= LEARNING_INTERVALS_F(adept)[1]

\* C23 witness: a failed interspersed review stands in the learning queue at
\* index LEARNING_INTERVALS_F[0], counted from 0.
C23_Witness ==
    /\ AfterIntervalRating
    /\ review_status(prev, adept) = "ReviewIntersperse"
    /\ Len(learning_cards) = Len(prev.learning_cards) + 1
    /\ learning_cards[LEARNING_INTERVALS_F(adept)[1] + 1] = CardLearning(rated, 1)

\* C24. Refill invariant of the interval scheduler: after construction and
\* after every rate_card, a non-empty stack comes with a learning queue of at
\* least LEARNING_CARDS cards.
C24_Refill ==
    (kind = "Interval" /\ failure = "none") =>
        /\ new_cards # <<>> => Len(learning_cards) >= LEARNING_CARDS(adept)
        /\ Len(learning_cards) < LEARNING_CARDS(adept) => new_cards = <<>>
        /\ pc = "rate" =>
              \A rating \in Ratings :
                  LET after == rate_card(Cur, adept, rating, now).sched
                  IN  after.new_cards # <<>> =>
                          Len(after.learning_cards) >= LEARNING_CARDS(adept)

\* C24 witness: the last rating promoted a card, the queue was refilled from
\* the stack to LEARNING_CARDS cards, and cards are left on the stack.
C24_Witness ==
    /\ AfterIntervalRating
    /\ Len(reviewing_cards) = Len(prev.reviewing_cards) + 1
    /\ Len(new_cards) = Len(prev.new_cards) - 1
    /\ new_cards # <<>>
    /\ Len(learning_cards) = LEARNING_CARDS(adept)
    /\ Front(learning_cards) = CardNew(Back(prev.new_cards).id)

\* The distance of C25 for the new count `count` of a card that stays in
\* Learning (tables indexed from 0).
DistanceByRule(count) ==
    LET S == LEARNING_INTERVALS_S(adept)
        F == LEARNING_INTERVALS_F(adept)
    IN  IF count >= 0 THEN S[Min(count, Len(S) - 1) + 1]
        ELSE F[Min(-count, Len(F) - 1) + 1]

\* The queue `others` with `card` put in at index `at`, counted from 0.
PutAt(others, at, card) ==
    [k \in 1..(Len(others) + 1) |->
        IF k <= at THEN others[k] ELSE IF k = at + 1 THEN card ELSE others[k - 1]]

OtherReviews ==
    IF review_status(Cur, adept) = "Review" THEN Tail(reviewing_cards)
    ELSE SubSeq(reviewing_cards, 1, Len(reviewing_cards) - 1)

\* last_interval after a successful review: 3 after no repetition, 6 after
\* one, else the product with the easiness factor (in hundredths), rounded.
IntervalByRule(card) ==
    IF card.repetition = 0 THEN 3
    ELSE IF card.repetition = 1 THEN 6
    ELSE (2 * card.last_interval * card.easiness_factor + 100) \div 200

\* C26. Successful review in the interval scheduler: a Review card rated Hard,
\* Good or Easy stays Review, its last_interval becomes 3, 6 or the rounded
\* product of the old last_interval and easiness_factor, its repetition rises
\* by 1, and it stands in the review queue at index min(last_interval, length
\* of the queue without it); the other cards keep their places in order and
\* the learning queue is as before.
C26_SuccessfulReview ==
    ReviewCardShown =>
        \A rating \in Ratings \ {"Again"} :
            LET after == rate_card(Cur, adept, rating, now).sched
                card == ShownAfter(rating)
                at == Min(IntervalByRule(current), Len(OtherReviews))
            IN  /\ card.st = "Review"
                /\ card.last_interval = IntervalByRule(current)
                /\ card.repetition = current.repetition + 1
                /\ after.reviewing_cards = PutAt(OtherReviews, at, card)
                /\ after.learning_cards = learning_cards
                /\ after.new_cards = new_cards

\* C26 witness: the last rating was a successful review of a card with two or
\* more repetitions, whose product is not a whole number, and the card went
\* behind another card of the review queue.
C26_Witness ==
    /\ AfterIntervalRating
    /\ review_status(prev, adept) # "Learn"
    /\ CardIn(AllOf(prev), rated).repetition >= 2
    /\ (CardIn(AllOf(prev), rated).last_interval
          * CardIn(AllOf(prev), rated).easiness_factor) % 100 >= 50
    /\ CardOf(rated).repetition = CardIn(AllOf(prev), rated).repetition + 1
    /\ Len(reviewing_cards) >= 2
    /\ Back(reviewing_cards).id = rated

\* The scheduler after the shown Review card is rated Again.
AfterAgain == rate_card(Cur, adept, "Again", now).sched

V2CallDue == kind = "V2" /\ failure = "none" /\ pc = "get"

\* The scheduler that call leaves behind.
V2AfterGet == v2_populate_learning_cards(CurV2, now, adept).sched

\* The tier of a card at time t: overdue Review, New, Learning, Review not yet due.
V2Tier(card, t) ==
    CASE card.st = "Review" /\ card.due < t -> 0
      [] card.st = "New" -> 1
      [] card.st = "Learning" -> 2
      [] OTHER -> 3

\* The position of the card with this id in a pool (0 when it is not there).
V2PositionIn(pool, id) ==
    IF \E i \in 1..Len(pool) : pool[i].id = id
    THEN CHOOSE i \in 1..Len(pool) : pool[i].id = id
    ELSE 0

\* x may stand before y: an earlier tier; in the same tier of Review cards, a
\* due time that is not later; in the tier of Learning cards, a shorter distance,
\* or the same distance and the earlier place in the pool as it was.
V2MayPrecede(x, y, t, a, was) ==
    \/ V2Tier(x, t) < V2Tier(y, t)
    \/ /\ V2Tier(x, t) = V2Tier(y, t)
       /\ CASE x.st = "Review" -> x.due <= y.due
            [] x.st = "New" -> TRUE
            [] x.st = "Learning" ->
                 LET dx == v2_learning_intervals_s(a)[x.attempts + 1]
                     dy == v2_learning_intervals_s(a)[y.attempts + 1]
                 IN  \/ dx < dy
                     \/ dx = dy /\ V2PositionIn(was, x.id) < V2PositionIn(was, y.id)

V2InPriorityOrder(q, t, a, was) ==
    \A i, j \in 1..Len(q) : i < j => V2MayPrecede(q[i], q[j], t, a, was)

\* The pool with its first two cards exchanged.
V2FrontExchanged(q) ==
    IF Len(q) < 2 THEN q ELSE <<q[2], q[1]>> \o SubSeq(q, 3, Len(q))

\* C28: the pool a get_card call leaves is the pool in priority order (overdue
\* Review by due time, New, Learning by distance with ties in their previous
\* order, Review not yet due by due time), and the call returns its first card;
\* only when that first card is the one that stood first before the call and
\* the pool holds two or more cards are the first two exchanged and the second
\* returned.
C28_PriorityOrder ==
    V2CallDue =>
        \E q \in {V2AfterGet.learning_cards, V2FrontExchanged(V2AfterGet.learning_cards)} :
            /\ V2InPriorityOrder(q, now, adept, learning_cards)
            /\ V2AfterGet.learning_cards
                 = IF q[1].id = learning_cards[1].id /\ Len(q) >= 2
                   THEN V2FrontExchanged(q) ELSE q

\* C28 witness: a get_card call was made on a pool holding an overdue Review
\* card, a Learning card and a Review card not yet due; the card rated last no
\* longer stands first, and the call returned the overdue Review card.
C28_Witness ==
    /\ kind = "V2" /\ failure = "none" /\ pc = "rate"
    /\ n_ratings > 0
    /\ Len(learning_cards) >= 3
    /\ V2Tier(learning_cards[1], got_at) = 0
    /\ current = learning_cards[1]
    /\ learning_cards[1].id # rated
    /\ \E i \in 1..Len(learning_cards) : V2Tier(learning_cards[i], got_at) = 2
    /\ \E i \in 1..Len(learning_cards) : V2Tier(learning_cards[i], got_at) = 3

\* The pooled cards that are active at time t: New, Learning, or Review with
\* a due time earlier than t.
V2ActiveIn(pool, t) ==
    {i \in 1..Len(pool) :
        \/ pool[i].st \in {"New", "Learning"}
        \/ pool[i].st = "Review" /\ pool[i].due < t}

\* The cards a get_card call takes to fill the pool up to the minimum.
V2FilledUp == Min(Max((IF adept THEN 7 ELSE 10) - Len(learning_cards), 0), Len(new_cards))

\* The one further card: the stack is not empty after the fill and fewer than
\* learning_cards() cards of the filled pool are active.
V2OneFurther ==
    LET filled == learning_cards
                    \o [i \in 1..V2FilledUp |-> new_cards[Len(new_cards) + 1 - i]]
    IN  IF /\ Len(new_cards) - V2FilledUp > 0
           /\ Cardinality(V2ActiveIn(filled, now)) < (IF adept THEN 7 ELSE 10)
        THEN 1 ELSE 0

V2IdsOf(cards) == {cards[i].id : i \in 1..Len(cards)}

\* C29: in every state of the v2 scheduler the pool holds at least
\* min(learning_cards, total cards) cards; a get_card call moves the cards of
\* the minimum fill and, beyond them, one further card from the top of the stack
\* exactly when the stack is then non-empty and fewer than learning_cards pooled
\* cards are active, and never more than that one.
C29_CapacityControl ==
    (kind = "V2" /\ failure = "none") =>
        /\ Len(learning_cards) >= Min(IF adept THEN 7 ELSE 10, n_cards)
        /\ pc = "get" =>
             LET moved == V2FilledUp + V2OneFurther
                 left == Len(new_cards) - moved
             IN  /\ V2AfterGet.new_cards = SubSeq(new_cards, 1, left)
                 /\ Len(V2AfterGet.learning_cards) = Len(learning_cards) + moved
                 /\ V2IdsOf(V2AfterGet.learning_cards)
                      = V2IdsOf(learning_cards)
                          \cup V2IdsOf(SubSeq(new_cards, left + 1, Len(new_cards)))

\* C29 witness: the last get_card call found a full pool in which a Review card
\* was not yet due and moved one further card from the stack into it.
C29_Witness ==
    /\ kind = "V2" /\ failure = "none" /\ pc = "rate"
    /\ n_ratings > 0
    /\ Len(prev.learning_cards) >= v2_learning_cards(adept)
    /\ Len(learning_cards) = Len(prev.learning_cards) + 1
    /\ Len(new_cards) = Len(prev.new_cards) - 1
    /\ \E i \in 1..Len(learning_cards) :
          learning_cards[i].st = "Review" /\ learning_cards[i].due >= got_at

\* The card that get_card returned is a Learning card of the v2 scheduler.
V2LearningShown ==
    /\ kind = "V2" /\ failure = "none" /\ pc = "rate"
    /\ learning_cards # <<>>
    /\ learning_cards[1].st = "Learning"

\* That card after rate_card(rating).
V2ShownAfter(rating) == V2RateCardState(learning_cards[1], adept, rating, now)

\* C30: rating a Learning card of the v2 scheduler moves its attempts counter
\* as the documentation of the field says: Again makes 0 into -1 and resets a
\* positive count to 0; a successful answer makes 0 into 1 and resets a negative
\* count to 0.
C30_AttemptsAsDocumented ==
    V2LearningShown =>
        LET a == learning_cards[1].attempts
        IN  /\ a >= 0 =>
                 /\ V2ShownAfter("Again").st = "Learning"
                 /\ V2ShownAfter("Again").attempts = IF a = 0 THEN -1 ELSE 0
            /\ \A rating \in Ratings \ {"Again"} :
                 /\ a = 0 => /\ V2ShownAfter(rating).st = "Learning"
                             /\ V2ShownAfter(rating).attempts = 1
                 /\ a < 0 => /\ V2ShownAfter(rating).st = "Learning"
                             /\ V2ShownAfter(rating).attempts = 0

\* ---------------------------------------------------------------------------
\* The FSRS scheduler: selection and top-up.

\* get_card of the FSRS scheduler has returned a card.
FsrsCardShown ==
    /\ kind = "Fsrs" /\ failure = "none" /\ pc = "rate"
    /\ learning_cards # <<>>

\* C31: the card get_card returns in the FSRS scheduler has a retrievability
\* that no pooled card undercuts, and while the pool holds a New card the card
\* returned is a New card.
C31_LowestRetrievabilityFirst ==
    FsrsCardShown =>
        /\ current = learning_cards[1]
        /\ \A i \in 1..Len(learning_cards) :
              ~RetrievabilityLess(learning_cards[i], current, got_at)
        /\ (\E i \in 1..Len(learning_cards) : learning_cards[i].st = "New")
              => current.st = "New"

\* A get_card call of the FSRS scheduler is about to be made.
FsrsCallDue == kind = "Fsrs" /\ failure = "none" /\ pc = "get"

\* The scheduler that call leaves behind.
FsrsAfterGet == fsrs_populate_learning_cards(CurFsrs, now)

\* The cards the call takes to fill the pool up to the minimum, and the pool
\* so filled.
FsrsFilledUp == Min(Max(8 - Len(learning_cards), 0), Len(new_cards))

FsrsFilledPool ==
    learning_cards \o [i \in 1..FsrsFilledUp |-> new_cards[Len(new_cards) + 1 - i]]

\* The cards of a pool whose retrievability at time t is not above 0.85.
FsrsNotWellStudied(pool, t) ==
    {i \in 1..Len(pool) : get_retrievability(pool[i], t) <= 8500}

\* What the call moves from the stack to the pool when it pulls `further`
\* cards beyond the fill.
FsrsMoves(further) ==
    LET moved == FsrsFilledUp + further
        left == Len(new_cards) - moved
    IN  /\ FsrsAfterGet.new_cards = SubSeq(new_cards, 1, left)
        /\ Len(FsrsAfterGet.learning_cards) = Len(learning_cards) + moved
        /\ V2IdsOf(FsrsAfterGet.learning_cards)
             = V2IdsOf(learning_cards)
                 \cup V2IdsOf(SubSeq(new_cards, left + 1, Len(new_cards)))

\* C32 as stated: the pool holds at least min(MINIMUM_LEARNING_CARDS, total)
\* cards, and a get_card call pulls one card beyond the fill exactly when the
\* stack is then non-empty and every pooled card has a retrievability above 0.85.
C32_TopUpWhenAll ==
    (kind = "Fsrs" /\ failure = "none") =>
        /\ Len(learning_cards) >= Min(8, n_cards)
        /\ pc = "get" =>
             FsrsMoves(IF /\ Len(new_cards) - FsrsFilledUp > 0
                          /\ FsrsNotWellStudied(FsrsFilledPool, now) = {}
                       THEN 1 ELSE 0)

\* C32 amended: the pool holds at least min(MINIMUM_LEARNING_CARDS, total)
\* cards, and a get_card call pulls one card beyond the fill exactly when the
\* stack is then non-empty and at most one pooled card has a retrievability
\* that is not above 0.85.
C32_TopUpWhenAllButOne ==
    (kind = "Fsrs" /\ failure = "none") =>
        /\ Len(learning_cards) >= Min(8, n_cards)
        /\ pc = "get" =>
             FsrsMoves(IF /\ Len(new_cards) - FsrsFilledUp > 0
                          /\ Cardinality(FsrsNotWellStudied(FsrsFilledPool, now)) <= 1
                       THEN 1 ELSE 0)

\* C32 witness: the last get_card call pulled a card into a pool in which one
\* card was not well studied.
C32_Witness ==
    /\ FsrsCardShown
    /\ n_ratings > 0
    /\ Len(learning_cards) = Len(prev.learning_cards) + 1
    /\ Len(new_cards) = Len(prev.new_cards) - 1
    /\ Cardinality(FsrsNotWellStudied(learning_cards, got_at)) = 2

\* ---------------------------------------------------------------------------
\* The interval scheduler: container typing, held cards, pacing, the final
\* phase, progress.

AllOfState(cards, states) == \A i \in 1..Len(cards) : cards[i].st \in states

\* C33: in every state of the interval scheduler the stack holds New cards
\* only, the learning queue New or Learning cards only and the review queue
\* Review cards only; no assertion and no unreachable!() arm has been hit, and
\* none is hit by the call that comes next, whatever the rating.
C33_ContainerTyping ==
    kind = "Interval" =>
        /\ AllOfState(new_cards, {"New"})
        /\ AllOfState(learning_cards, {"New", "Learning"})
        /\ AllOfState(reviewing_cards, {"Review"})
        /\ failure \notin {"assert", "unreachable"}
        /\ ~ReviewStatusPanics(Cur)
        /\ (pc = "rate" /\ failure = "none") =>
              \A rating \in Ratings :
                  rate_card(Cur, adept, rating, now).failure
                      \notin {"assert", "unreachable"}

\* C33 witness: the three containers are in use at once: the stack is not
\* empty, the learning queue holds a New and a Learning card and the review
\* queue a card that was promoted.
C33_Witness ==
    /\ AfterIntervalRating
    /\ new_cards # <<>>
    /\ \E i \in 1..Len(learning_cards) : learning_cards[i].st = "New"
    /\ \E i \in 1..Len(learning_cards) : learning_cards[i].st = "Learning"
    /\ reviewing_cards # <<>>
    /\ AllOfState(reviewing_cards, {"Review"})

\* C34: after every rate_card call of the interval scheduler a learning queue
\* that is not empty holds a card that is New or has attempts below
\* MAX_LEARNING_ATTEMPTS.
C34_NoStrandedMastered ==
    (AfterIntervalRating /\ learning_cards # <<>>) =>
        \E i \in 1..Len(learning_cards) :
            \/ learning_cards[i].st = "New"
            \/ learning_cards[i].attempts < MAX_LEARNING_ATTEMPTS(adept)


\* C34 witness: with the stack empty and more than LEARNING_CARDS + 1 cards in
\* the learning queue after failed reviews, the last rating promoted a card on
\* its own; held cards with attempts at MAX_LEARNING_ATTEMPTS stay in the
\* queue, together with a card below it.
C34_Witness ==
    /\ AfterIntervalRating
    /\ prev.new_cards = <<>>
    /\ Len(prev.learning_cards) > LEARNING_CARDS(adept) + 1
    /\ Len(learning_cards) = Len(prev.learning_cards) - 1
    /\ rated \in Ids(reviewing_cards)
    /\ \E i \in 1..Len(learning_cards) :
          learning_cards[i].attempts >= MAX_LEARNING_ATTEMPTS(adept)
    /\ \E i \in 1..Len(learning_cards) :
          learning_cards[i].attempts < MAX_LEARNING_ATTEMPTS(adept)


\* The last rate_card call of the interval scheduler rated a card of the review
\* queue.
AfterReviewRating ==
    /\ kind = "Interval" /\ failure = "none" /\ n_ratings > 0
    /\ rated \in Ids(prev.reviewing_cards)

\* C35: when the learning queue is not empty after a rating given in a review
\* phase, the next turn is a Learn turn: the phase is Learn and get_card
\* returns the front of the learning queue.
C35_ReviewPacing ==
    (AfterReviewRating /\ learning_cards # <<>>) =>
        /\ done_learning = 0
        /\ review_status(Cur, adept) = "Learn"
        /\ pc = "rate" => current = Front(learning_cards)

\* C35 witness: with the stack empty, a card of the review queue was rated
\* while learning cards were waiting, and the card shown next is the front of
\* the learning queue.
C35_Witness ==
    /\ AfterReviewRating
    /\ pc = "rate"
    /\ new_cards = <<>>
    /\ prev.learning_cards # <<>>
    /\ reviewing_cards # <<>>
    /\ current = Front(learning_cards)


\* The final phase of the interval scheduler: the stack and the learning queue
\* are empty and the cards are in the review queue.
FinalReviewPhase ==
    /\ kind = "Interval" /\ failure = "none"
    /\ new_cards = <<>> /\ learning_cards = <<>>
    /\ reviewing_cards # <<>>

\* C36: in the final phase the turn is a plain Review turn on the head of the
\* review queue, and every rating of that card, Again included, leaves the
\* stack and the learning queue empty and the card in the review queue.
C36_FinalPhaseAbsorbing ==
    FinalReviewPhase =>
        /\ review_status(Cur, adept) = "Review"
        /\ pc = "rate" =>
             /\ current = Front(reviewing_cards)
             /\ \A rating \in Ratings :
                  LET out == rate_card(Cur, adept, rating, now)
                  IN  /\ out.failure = "none"
                      /\ out.rated = current.id
                      /\ out.sched.new_cards = <<>>
                      /\ out.sched.learning_cards = <<>>
                      /\ Ids(out.sched.reviewing_cards) = Ids(reviewing_cards)
                      /\ Len(out.sched.reviewing_cards) = Len(reviewing_cards)
                      /\ AllOfState(out.sched.reviewing_cards, {"Review"})

\* C36 witness: in the final phase the head of a review queue of two or more
\* cards was rated Again, and the phase is still the final one.
C36_Witness ==
    /\ FinalReviewPhase
    /\ n_ratings > 0
    /\ prev.new_cards = <<>> /\ prev.learning_cards = <<>>
    /\ Len(reviewing_cards) >= 2
    /\ Front(prev.reviewing_cards).id = rated
    /\ CardIn(reviewing_cards, rated).repetition = 0


\* C37: a session in which no rating is Again never stops on a panic, and
\* within MaxSuccessRatings ratings the interval scheduler has an empty stack,
\* an empty learning queue and every card in the review queue.
C37_ProgressUnderSuccess ==
    kind = "Interval" =>
        /\ failure = "none"
        /\ pc = "get" => get_card(Cur, adept) # NoCard
        /\ n_ratings = MaxSuccessRatings => AllInReview

\* C37 witness: a deck larger than the learning queue has gone into review
\* entirely, without a failed rating.
C37_Witness ==
    /\ AllInReview
    /\ n_cards > LEARNING_CARDS(adept)
    /\ clean = 1..n_cards


\* ---------------------------------------------------------------------------
\* The priority scheduler (v2): the range of the attempts counter.

C39_IntroductionOrder ==
    (kind \in {"Interval", "V2", "Fsrs"} /\ failure = "none") =>
        /\ \A i \in 1..Len(new_cards) : new_cards[i].id = n_cards + 1 - i
        /\ Ids(learning_cards) \cup Ids(reviewing_cards)
             = 1..(n_cards - Len(new_cards))
        /\ (kind = "Interval" /\ n_ratings = 0) =>
              /\ learning_cards[1].id = 1
              /\ get_card(Cur, adept).id = 1
              /\ pc = "rate" => current.id = 1

\* C39 witness: after construction further cards have left the stack, and
\* others are still on it.
C39_Witness ==
    /\ kind \in {"Interval", "V2", "Fsrs"} /\ failure = "none"
    /\ n_ratings > 0
    /\ new_cards # <<>>
    /\ Len(new_cards) < Len(prev.new_cards)
    /\ Len(new_cards) < n_cards - 1
    /\ new_cards[Len(new_cards)].id \notin Ids(learning_cards) \cup Ids(reviewing_cards)


\* ---------------------------------------------------------------------------
\* The progress map: try_initialize_scheme.

\* C40: for every deck id, card count and options, try_initialize_scheme
\* leaves the map as it is when the id has an entry; when it has none it adds
\* an entry for that id alone, of the variant the options name, if the card
\* list is not empty, and returns Err and adds nothing if it is empty.
C40_NeverReplaces ==
    (kind = "User" /\ failure = "none" /\ pc = "loaded") =>
        \A id \in SchemeIds, n \in 0..MaxUserDeck, a \in BOOLEAN, v2 \in BOOLEAN :
            LET res == try_initialize_scheme(id, n, a, v2, now)
            IN  /\ \A other \in SchemeIds \ {id} :
                      res.progresses[other] = progresses[other]
                /\ progresses[id] # NoProgress =>
                      /\ res.progresses[id] = progresses[id]
                      /\ res.result = "Ok"
                /\ (progresses[id] = NoProgress /\ n = 0) =>
                      /\ res.progresses[id] = NoProgress
                      /\ res.result = "Err"
                /\ (progresses[id] = NoProgress /\ n > 0) =>
                      /\ res.result = "Ok"
                      /\ res.progresses[id] # NoProgress
                      /\ res.progresses[id].scheduler
                           = IF v2 THEN "V2" ELSE IF a THEN "Adept" ELSE "Novice"
                      /\ res.progresses[id].adept = a
                      /\ ProgressTotalCards(res.progresses[id]) = n

\* C40 witness: a deck whose stored progress holds a rated card was opened
\* again, and the entry is the stored one.
C40_Witness ==
    /\ kind = "User" /\ failure = "none" /\ pc = "get"
    /\ init_result = "Ok"
    /\ current_scheme \in SchemeIds
    /\ progresses[current_scheme] # NoProgress
    /\ \E k \in 1..Len(ProgressCards(progresses[current_scheme])) :
          ProgressCards(progresses[current_scheme])[k].st # "New"
    /\ progresses[current_scheme]
         = read_from_local_storage(stored).progresses[current_scheme]

====
